---- MODULE Spec2Model ----
(***************************************************************************)
(* Books vs GSTR-2B reconciliation (src/src/services/reconciliationService.ts) *)
(* as a state machine.  Text is a sequence of one-character strings, an     *)
(* amount is an integer count of 1/Scale currency units, a cell is a tagged *)
(* value (null, number, text) and a record is an ordered map from header   *)
(* text to cell.                                                           *)
(***************************************************************************)
EXTENDS Integers, Sequences, FiniteSets, TLC

\* ------------------------------------------------------------------ text

UpperChars == <<"A","B","C","D","E","F","G","H","I","J","K","L","M",
                "N","O","P","Q","R","S","T","U","V","W","X","Y","Z">>

LowerChars == <<"a","b","c","d","e","f","g","h","i","j","k","l","m",
                "n","o","p","q","r","s","t","u","v","w","x","y","z">>

DigitChars == <<"0","1","2","3","4","5","6","7","8","9">>

\* The characters /\s/ and String.prototype.trim treat as white space.
IsSpace(c) == c \in {" ", "\t", "\n"}

ValueOf == [c \in {DigitChars[i] : i \in 1..10} |->
               (CHOOSE i \in 1..10 : DigitChars[i] = c) - 1]

IsDigit(c) == c \in DOMAIN ValueOf

DigitValue(c) == ValueOf[c]

\* The upper-case letter of each lower-case one, and the reverse.
UpperOf == [c \in {LowerChars[i] : i \in 1..26} |->
               UpperChars[CHOOSE i \in 1..26 : LowerChars[i] = c]]

LowerOf == [c \in {UpperChars[i] : i \in 1..26} |->
               LowerChars[CHOOSE i \in 1..26 : UpperChars[i] = c]]

ToUpperChar(c) == IF c \in DOMAIN UpperOf THEN UpperOf[c] ELSE c

ToLowerChar(c) == IF c \in DOMAIN LowerOf THEN LowerOf[c] ELSE c

\* String.prototype.toUpperCase / toLowerCase
ToUpperCase(s) == [i \in 1..Len(s) |-> ToUpperChar(s[i])]

ToLowerCase(s) == [i \in 1..Len(s) |-> ToLowerChar(s[i])]

RECURSIVE TrimStart(_)
TrimStart(s) == IF s # <<>> /\ IsSpace(s[1]) THEN TrimStart(Tail(s)) ELSE s

RECURSIVE TrimEnd(_)
TrimEnd(s) ==
    IF s # <<>> /\ IsSpace(s[Len(s)]) THEN TrimEnd(SubSeq(s, 1, Len(s) - 1)) ELSE s

\* String.prototype.trim: white space is removed at both ends only.
Trim(s) == TrimEnd(TrimStart(s))

\* s.replace(/\s/g, ''): white space is removed everywhere.
RemoveWhitespace(s) == SelectSeq(s, LAMBDA c : ~IsSpace(c))

\* s.replace(/,/g, '')
RemoveCommas(s) == SelectSeq(s, LAMBDA c : c # ",")

\* String.prototype.includes
Includes(s, t) ==
    \E i \in 0..(Len(s) - Len(t)) : SubSeq(s, i + 1, i + Len(t)) = t

\* ---------------------------------------------------------------- numbers

\* Amounts are binary fractions, which IEEE doubles add and subtract
\* exactly: the integer n stands for the number n / Scale.
Scale == 2 * 2 * 2

Abs(n) == IF n < 0 THEN -n ELSE n

RECURSIVE NatToString(_)
NatToString(n) ==
    IF n < 10 THEN <<DigitChars[n + 1]>>
    ELSE NatToString(n \div 10) \o <<DigitChars[(n % 10) + 1]>>

RECURSIVE StripTrailingZeros(_)
StripTrailingZeros(s) ==
    IF s # <<>> /\ s[Len(s)] = "0"
    THEN StripTrailingZeros(SubSeq(s, 1, Len(s) - 1))
    ELSE s

\* The three decimal digits of k / Scale, 0 <= k < Scale.
FractionDigits(k) ==
    LET m == (k * 1000) \div Scale
    IN  <<DigitChars[(m \div 100) + 1], DigitChars[((m \div 10) % 10) + 1],
          DigitChars[(m % 10) + 1]>>

\* Number.prototype.toString (String(x) of a number).
NumberToString(n) ==
    LET m    == Abs(n)
        frac == StripTrailingZeros(FractionDigits(m % Scale))
    IN  (IF n < 0 THEN <<"-">> ELSE <<>>)
        \o NatToString(m \div Scale)
        \o (IF frac = <<>> THEN <<>> ELSE <<".">> \o frac)

\* Number.prototype.toFixed(2): the sign first, then the magnitude rounded
\* to hundredths, the larger candidate on an exact tie.
ToFixed2(n) ==
    LET m == Abs(n)
        h == (2 * 100 * m + Scale) \div (2 * Scale)
    IN  (IF n < 0 THEN <<"-">> ELSE <<>>)
        \o NatToString(h \div 100) \o <<".">>
        \o <<DigitChars[((h \div 10) % 10) + 1], DigitChars[(h % 10) + 1]>>

RECURSIVE DigitPrefix(_)
DigitPrefix(s) ==
    IF s # <<>> /\ IsDigit(s[1]) THEN <<s[1]>> \o DigitPrefix(Tail(s)) ELSE <<>>

RECURSIVE DigitsValue(_)
DigitsValue(s) ==
    IF s = <<>> THEN 0
    ELSE 10 * DigitsValue(SubSeq(s, 1, Len(s) - 1)) + DigitValue(s[Len(s)])

RECURSIVE Pow10(_)
Pow10(k) == IF k = 0 THEN 1 ELSE 10 * Pow10(k - 1)

\* parseFloat: leading white space is skipped, then the longest prefix
\* sign? digits* ('.' digits*)? with at least one digit is read and the rest
\* ignored; with no digit the result is NaN.  (Exponents and "Infinity" are
\* outside the text the model feeds it.)
ParseFloat(s) ==
    LET t     == TrimStart(s)
        neg   == t # <<>> /\ t[1] = "-"
        u     == IF t # <<>> /\ t[1] \in {"-", "+"} THEN Tail(t) ELSE t
        ip    == DigitPrefix(u)
        v     == SubSeq(u, Len(ip) + 1, Len(u))
        fp    == IF v # <<>> /\ v[1] = "." THEN DigitPrefix(Tail(v)) ELSE <<>>
        mag   == ((DigitsValue(ip) * Pow10(Len(fp)) + DigitsValue(fp)) * Scale)
                     \div Pow10(Len(fp))
    IN  IF ip = <<>> /\ fp = <<>> THEN [nan |-> TRUE, n |-> 0]
        ELSE [nan |-> FALSE, n |-> IF neg THEN -mag ELSE mag]

\* ------------------------------------------------------------------ cells

Null == [t |-> "null", n |-> 0, s |-> <<>>]

Num(x) == [t |-> "num", n |-> x, s |-> <<>>]

Str(x) == [t |-> "str", n |-> 0, s |-> x]

\* String(v) for a cell that is not null.
StringOf(v) == IF v.t = "num" THEN NumberToString(v.n) ELSE v.s

\* String(v ?? '')
StringOrEmpty(v) == IF v.t = "null" THEN <<>> ELSE StringOf(v)

\* v is falsy: null, 0 or the empty string.
Falsy(v) == v.t = "null" \/ (v.t = "num" /\ v.n = 0) \/ (v.t = "str" /\ v.s = <<>>)

\* String(h || '').trim()
CellText(v) == IF Falsy(v) THEN <<>> ELSE Trim(StringOf(v))

\* ------------------------------------------------- ordered maps (objects)

\* A JavaScript object or Map: a sequence of <<key, value>> pairs in
\* insertion order, no key twice.
Has(m, k) == \E i \in 1..Len(m) : m[i][1] = k

IndexOf(m, k) == CHOOSE i \in 1..Len(m) : m[i][1] = k

Get(m, k) == m[IndexOf(m, k)][2]

\* m[k] = v, map.set(k, v): an existing key keeps its position.
Put(m, k, v) ==
    IF Has(m, k) THEN [m EXCEPT ![IndexOf(m, k)] = <<k, v>>]
    ELSE Append(m, <<k, v>>)

\* Mutant: the entry is never removed.
Delete_Kept(m, k) == m

\* map.delete(k)
Delete(m, k) == SelectSeq(m, LAMBDA e : e[1] # k)

\* Object.keys(m), Array.from(map.keys())
Keys(m) == [i \in 1..Len(m) |-> m[i][1]]

\* Object.values(m), Array.from(map.values())
Values(m) == [i \in 1..Len(m) |-> m[i][2]]

\* ---------------------------------------------------------- configuration

\* 'GSTIN', 'GSTIN/UIN of Recipient', 'GSTIN of Supplier', 'Supplier GSTIN'
ALIASES_gstin ==
    << <<"G","S","T","I","N">>,
       <<"G","S","T","I","N","/","U","I","N"," ","o","f"," ","R","e","c","i","p","i","e","n","t">>,
       <<"G","S","T","I","N"," ","o","f"," ","S","u","p","p","l","i","e","r">>,
       <<"S","u","p","p","l","i","e","r"," ","G","S","T","I","N">> >>

\* Every sequence of 1..n elements of S.
AllSeqsUpTo(S, n) == UNION {[1..k -> S] : k \in 1..n}

\* Every sequence of 1..n different elements of S.
SeqsUpTo(S, n) ==
    UNION {{q \in [1..k -> S] : \A a, b \in 1..k : a # b => q[a] # q[b]} : k \in 1..n}

\* 'Invoice Number', 'Bill No', 'Bill Number', 'Document Number', 'Invoice No.', 'Inv No'
ALIASES_billNo ==
    << <<"I","n","v","o","i","c","e"," ","N","u","m","b","e","r">>,
       <<"B","i","l","l"," ","N","o">>,
       <<"B","i","l","l"," ","N","u","m","b","e","r">>,
       <<"D","o","c","u","m","e","n","t"," ","N","u","m","b","e","r">>,
       <<"I","n","v","o","i","c","e"," ","N","o",".">>,
       <<"I","n","v"," ","N","o">> >>

\* 'Supplier Name', 'Party Name', 'Supplier Legal Name', 'Trade/Legal name of the supplier'
ALIASES_legalName ==
    << <<"S","u","p","p","l","i","e","r"," ","N","a","m","e">>,
       <<"P","a","r","t","y"," ","N","a","m","e">>,
       <<"S","u","p","p","l","i","e","r"," ","L","e","g","a","l"," ","N","a","m","e">>,
       <<"T","r","a","d","e","/","L","e","g","a","l"," ","n","a","m","e"," ","o","f"," ","t","h","e"," ","s","u","p","p","l","i","e","r">> >>

\* 'Taxable Value (Rs)', 'Taxable Value', 'Taxable Amt', 'Taxable Amount'
ALIASES_taxableValue ==
    << <<"T","a","x","a","b","l","e"," ","V","a","l","u","e"," ","(","Rs",")">>,
       <<"T","a","x","a","b","l","e"," ","V","a","l","u","e">>,
       <<"T","a","x","a","b","l","e"," ","A","m","t">>,
       <<"T","a","x","a","b","l","e"," ","A","m","o","u","n","t">> >>

\* 'Integrated Tax(Rs)', 'Integrated Tax', 'IGST', 'IGST Amt'
ALIASES_integratedTax ==
    << <<"I","n","t","e","g","r","a","t","e","d"," ","T","a","x","(","Rs",")">>,
       <<"I","n","t","e","g","r","a","t","e","d"," ","T","a","x">>,
       <<"I","G","S","T">>,
       <<"I","G","S","T"," ","A","m","t">> >>

\* 'Central Tax(Rs)', 'Central Tax', 'CGST', 'CGST Amt'
ALIASES_centralTax ==
    << <<"C","e","n","t","r","a","l"," ","T","a","x","(","Rs",")">>,
       <<"C","e","n","t","r","a","l"," ","T","a","x">>,
       <<"C","G","S","T">>,
       <<"C","G","S","T"," ","A","m","t">> >>

\* 'State/UT Tax(Rs)', 'State/UT Tax', 'State Tax', 'SGST', 'SGST Amt'
ALIASES_stateTax ==
    << <<"S","t","a","t","e","/","U","T"," ","T","a","x","(","Rs",")">>,
       <<"S","t","a","t","e","/","U","T"," ","T","a","x">>,
       <<"S","t","a","t","e"," ","T","a","x">>,
       <<"S","G","S","T">>,
       <<"S","G","S","T"," ","A","m","t">> >>

\* 'Cess(Rs)', 'Cess', 'Cess Amt'
ALIASES_cess ==
    << <<"C","e","s","s","(","Rs",")">>,
       <<"C","e","s","s">>,
       <<"C","e","s","s"," ","A","m","t">> >>

\* An unresolved header (undefined).
NoHeader == <<>>

\* --------------------------------------------------------------- helpers

RECURSIVE FirstMatch(_, _, _)
\* headers.find(h => h.trim().toLowerCase() === alias.toLowerCase()), where
\* normal[i] is headers[i].trim().toLowerCase()
FirstMatch(headers, normal, lowered) ==
    IF headers = <<>> THEN NoHeader
    ELSE IF Head(normal) = lowered THEN Head(headers)
    ELSE FirstMatch(Tail(headers), Tail(normal), lowered)

RECURSIVE FindAlias(_, _, _)
\* for (const alias of aliases) { ...; if (found) return found; } return undefined
FindAlias(headers, normal, aliases) ==
    IF aliases = <<>> THEN NoHeader
    ELSE LET found == FirstMatch(headers, normal, ToLowerCase(Head(aliases)))
         IN  IF found # <<>> THEN found ELSE FindAlias(headers, normal, Tail(aliases))

\* Mutant: the first header, in sheet order, that equals any alias.
findHeader_SheetOrder(headers, aliases) ==
    LET hits == {j \in 1..Len(headers) :
                     \E a \in 1..Len(aliases) :
                         ToLowerCase(Trim(headers[j])) = ToLowerCase(aliases[a])}
    IN  IF hits = {} THEN NoHeader
        ELSE headers[CHOOSE j \in hits : \A k \in hits : j <= k]

findHeader(headers, aliases) ==
    FindAlias(headers, [i \in 1..Len(headers) |-> ToLowerCase(Trim(headers[i]))], aliases)

getColumnData(row, header) ==
    IF header = NoHeader \/ ~Has(row, header) \/ Get(row, header).t = "null" THEN 0
    ELSE LET value == ParseFloat(RemoveCommas(StringOf(Get(row, header))))
         IN  IF value.nan THEN 0 ELSE value.n

\* String(record[header] ?? '')
FieldText(record, header) ==
    IF Has(record, header) THEN StringOrEmpty(Get(record, header)) ELSE <<>>

\* record[header] is truthy
Truthy(record, header) == Has(record, header) /\ ~Falsy(Get(record, header))

\* numericHeaders.filter(h => !!h)
ValidHeaders(numericHeaders) == SelectSeq(numericHeaders, LAMBDA h : h # NoHeader)

\* Mutant: the key is built from the values as written.
ConsolidationKey_AsWritten(record, gstinHeader, billNoHeader) ==
    FieldText(record, gstinHeader) \o <<"-">> \o FieldText(record, billNoHeader)

\* `${gstin}-${billNo}` of the trimmed, upper-cased values
ConsolidationKey(record, gstinHeader, billNoHeader) ==
    ToUpperCase(Trim(FieldText(record, gstinHeader))) \o <<"-">>
        \o ToUpperCase(Trim(FieldText(record, billNoHeader)))

RECURSIVE CoerceNumeric(_, _, _)
\* validNumericHeaders.forEach(header => newRecord[header] = getColumnData(record, header))
CoerceNumeric(newRecord, record, headers) ==
    IF headers = <<>> THEN newRecord
    ELSE CoerceNumeric(Put(newRecord, Head(headers), Num(getColumnData(record, Head(headers)))),
                       record, Tail(headers))

\* existing[header] || 0, of a field that has held a number since creation
NumberOrZero(existing, header) ==
    IF Has(existing, header) /\ Get(existing, header).t = "num"
    THEN Get(existing, header).n ELSE 0

\* Mutant: a later line item replaces the running total.
AddNumeric_Overwrite(existing, record, headers) == CoerceNumeric(existing, record, headers)

RECURSIVE AddNumeric(_, _, _)
\* validNumericHeaders.forEach(header => existing[header] = (existing[header] || 0) + ...)
AddNumeric(existing, record, headers) ==
    IF headers = <<>> THEN existing
    ELSE AddNumeric(Put(existing, Head(headers),
                        Num(NumberOrZero(existing, Head(headers))
                                + getColumnData(record, Head(headers)))),
                    record, Tail(headers))

BackfillLegalName(existing, record, legalNameHeader) ==
    IF legalNameHeader # NoHeader /\ ~Truthy(existing, legalNameHeader)
           /\ Truthy(record, legalNameHeader)
    THEN Put(existing, legalNameHeader, Get(record, legalNameHeader))
    ELSE existing

\* The body of records.forEach in consolidateInvoices.
ConsolidateRecord(consolidatedMap, record, gstinHeader, billNoHeader, legalNameHeader, numericHeaders) ==
    LET gstin  == ToUpperCase(Trim(FieldText(record, gstinHeader)))
        billNo == ToUpperCase(Trim(FieldText(record, billNoHeader)))
        key    == ConsolidationKey(record, gstinHeader, billNoHeader)
        valid  == ValidHeaders(numericHeaders)
    IN  IF gstin = <<>> \/ billNo = <<>> THEN consolidatedMap
        ELSE IF ~Has(consolidatedMap, key)
        THEN Put(consolidatedMap, key, CoerceNumeric(record, record, valid))
        ELSE Put(consolidatedMap, key,
                 BackfillLegalName(AddNumeric(Get(consolidatedMap, key), record, valid),
                                   record, legalNameHeader))

RECURSIVE ConsolidateFrom(_, _, _, _, _, _)
ConsolidateFrom(consolidatedMap, records, gstinHeader, billNoHeader, legalNameHeader, numericHeaders) ==
    IF records = <<>> THEN consolidatedMap
    ELSE ConsolidateFrom(
             ConsolidateRecord(consolidatedMap, Head(records), gstinHeader, billNoHeader,
                               legalNameHeader, numericHeaders),
             Tail(records), gstinHeader, billNoHeader, legalNameHeader, numericHeaders)

consolidateInvoices(records, gstinHeader, billNoHeader, legalNameHeader, numericHeaders) ==
    Values(ConsolidateFrom(<<>>, records, gstinHeader, billNoHeader, legalNameHeader,
                           numericHeaders))

\* ---------------------------------------------------------- parseExcelFile

HeaderScanLimit == 15

\* (sheetData[i] || []).map(h => String(h || '').trim())
RowTexts(row) == [j \in 1..Len(row) |-> CellText(row[j])]

\* row.some(cell => aliasSet.some(alias => alias.toLowerCase() === cell.toLowerCase()))
RowHasAlias(row, aliasSet) ==
    \E j \in 1..Len(row) : \E a \in 1..Len(aliasSet) :
        ToLowerCase(aliasSet[a]) = ToLowerCase(row[j])

requiredAliasSets == <<ALIASES_gstin, ALIASES_billNo>>

matchCount(row) ==
    Cardinality({k \in 1..Len(requiredAliasSets) : RowHasAlias(row, requiredAliasSets[k])})

RECURSIVE ScanHeaderRow_AllRows(_, _)
\* Mutant: the loop runs over every row of the sheet.
ScanHeaderRow_AllRows(sheetData, i) ==
    IF i >= Len(sheetData)
    THEN [headerRowIndex |-> -1, headers |-> <<>>]
    ELSE LET row == RowTexts(sheetData[i + 1])
         IN  IF Len(row) # 0 /\ matchCount(row) >= Len(requiredAliasSets)
             THEN [headerRowIndex |-> i, headers |-> RowTexts(sheetData[i + 1])]
             ELSE ScanHeaderRow_AllRows(sheetData, i + 1)

RECURSIVE ScanHeaderRow(_, _)
\* The loop at i (0-based) over the first min(15, sheetData.length) rows.
ScanHeaderRow(sheetData, i) ==
    IF i >= (IF Len(sheetData) < HeaderScanLimit THEN Len(sheetData) ELSE HeaderScanLimit)
    THEN [headerRowIndex |-> -1, headers |-> <<>>]
    ELSE LET row == RowTexts(sheetData[i + 1])
         IN  IF Len(row) # 0 /\ matchCount(row) >= Len(requiredAliasSets)
             THEN [headerRowIndex |-> i, headers |-> RowTexts(sheetData[i + 1])]
             ELSE ScanHeaderRow(sheetData, i + 1)

FindHeaderRow(sheetData) == ScanHeaderRow(sheetData, 0)

RECURSIVE RowToRecord(_, _, _, _)
\* headers.forEach((header, index) => { if (header && index < rowArray.length) ... })
RowToRecord(record, headers, rowArray, j) ==
    IF j > Len(headers) THEN record
    ELSE RowToRecord(IF headers[j] # <<>> /\ j <= Len(rowArray)
                     THEN Put(record, headers[j], rowArray[j]) ELSE record,
                     headers, rowArray, j + 1)

\* Mutant: no record is discarded.
HasContent_Always(record) == TRUE

\* Object.values(record).some(val => val !== null && val !== '')
HasContent(record) ==
    \E i \in 1..Len(record) :
        record[i][2].t # "null" /\ ~(record[i][2].t = "str" /\ record[i][2].s = <<>>)

Materialize(headers, dataRows) ==
    SelectSeq([r \in 1..Len(dataRows) |-> RowToRecord(<<>>, headers, dataRows[r], 1)],
              HasContent)

Rejected(kind, fileNameForError) ==
    [ok |-> FALSE, error |-> <<kind, fileNameForError>>, value |-> <<>>,
     located |-> [headerRowIndex |-> -1, headers |-> <<>>]]

\* workbook.SheetNames.find(s => s.toLowerCase().includes(sheetName.toLowerCase()))
RECURSIVE FindSheet(_, _)
FindSheet(SheetNames, sheetName) ==
    IF SheetNames = <<>> THEN <<>>
    ELSE IF Includes(ToLowerCase(Head(SheetNames)), ToLowerCase(sheetName))
    THEN Head(SheetNames)
    ELSE FindSheet(Tail(SheetNames), sheetName)

SeqContains(s, e) == \E i \in 1..Len(s) : s[i] = e

\* The sheet parseExcelFile reads: <<>> when none is found.
TargetSheetName(workbook, sheetName) ==
    IF sheetName = <<>> THEN workbook.SheetNames[1]
    ELSE IF ~SeqContains(workbook.SheetNames, sheetName)
    THEN FindSheet(workbook.SheetNames, sheetName)
    ELSE sheetName

\* What the promise of parseExcelFile settles to.  A file is
\* [readable, parsable, SheetNames, Sheets]: whether FileReader loads it,
\* whether XLSX.read accepts it, and the workbook XLSX.read returns.
parseExcelFile(file, sheetName, fileNameForError) ==
    IF ~file.readable THEN Rejected("ReadFailed", fileNameForError)
    ELSE IF ~file.parsable THEN Rejected("ParseFailed", fileNameForError)
    ELSE IF Len(file.SheetNames) = 0 THEN Rejected("NoSheets", fileNameForError)
    ELSE LET targetSheetName == TargetSheetName(file, sheetName)
         IN  IF targetSheetName = <<>> THEN Rejected("SheetNotFound", fileNameForError)
             ELSE IF ~Has(file.Sheets, targetSheetName)
             THEN Rejected("SheetUnreadable", fileNameForError)
             ELSE LET sheetData == Get(file.Sheets, targetSheetName)
                      found     == FindHeaderRow(sheetData)
                      dataRows  == SubSeq(sheetData, found.headerRowIndex + 2, Len(sheetData))
                      jsonData  == Materialize(found.headers, dataRows)
                  IN  IF Len(sheetData) < 1 THEN Rejected("EmptySheet", fileNameForError)
                      ELSE IF found.headerRowIndex = -1
                      THEN Rejected("HeaderNotFound", fileNameForError)
                      ELSE IF Len(jsonData) = 0
                      THEN [Rejected("EmptyDataset", fileNameForError) EXCEPT !.located = found]
                      ELSE [ok |-> TRUE, error |-> <<>>, value |-> jsonData, located |-> found]

\* ----------------------------------------------------------- reconcileData

\* 'Recon Status'
KEY_ReconStatus == <<"R","e","c","o","n"," ","S","t","a","t","u","s">>

\* 'Diff Taxable Value (Rs)'
KEY_DiffTaxable == <<"D","i","f","f"," ","T","a","x","a","b","l","e"," ","V","a","l","u","e"," ","(","Rs",")">>

\* 'Diff Integrated Tax(Rs)'
KEY_DiffIgst == <<"D","i","f","f"," ","I","n","t","e","g","r","a","t","e","d"," ","T","a","x","(","Rs",")">>

\* 'Diff Central Tax(Rs)'
KEY_DiffCgst == <<"D","i","f","f"," ","C","e","n","t","r","a","l"," ","T","a","x","(","Rs",")">>

\* 'Diff State/UT Tax(Rs)'
KEY_DiffSgst == <<"D","i","f","f"," ","S","t","a","t","e","/","U","T"," ","T","a","x","(","Rs",")">>

\* 'Diff Cess(Rs)'
KEY_DiffCess == <<"D","i","f","f"," ","C","e","s","s","(","Rs",")">>

\* 'GSTR2B_'
GSTR2B_Prefix == <<"G","S","T","R","2","B","_">>

\* 'Matched'
STATUS_Matched == <<"M","a","t","c","h","e","d">>

\* 'Partially Matched'
STATUS_PartiallyMatched == <<"P","a","r","t","i","a","l","l","y"," ","M","a","t","c","h","e","d">>

\* 'Only in Books'
STATUS_OnlyInBooks == <<"O","n","l","y"," ","i","n"," ","B","o","o","k","s">>

\* 'Only in GSTR-2B'
STATUS_OnlyInGstr2b == <<"O","n","l","y"," ","i","n"," ","G","S","T","R","-","2","B">>

\* '0.00'
ZeroDiff == <<"0",".","0","0">>

\* 'B2B'
SHEET_B2B == <<"B","2","B">>

\* 'CDNR'
SHEET_CDNR == <<"C","D","N","R">>

\* 'Purchase Report'
FILE_Books == <<"P","u","r","c","h","a","s","e"," ","R","e","p","o","r","t">>

\* 'GSTR-2B Report'
FILE_Gstr2b == <<"G","S","T","R","-","2","B"," ","R","e","p","o","r","t">>

Tolerance == 2

\* gstr2bType === 'B2B' ? 'B2B' : gstr2bType === 'CDNR' ? 'CDNR' : undefined
gstr2bSheetName(type) ==
    IF type = "B2B" THEN SHEET_B2B ELSE IF type = "CDNR" THEN SHEET_CDNR ELSE <<>>

\* Mutant: the keys of every record of the sheet, each once.
FirstRecordKeys_AnyRecord(sheet) ==
    LET Gather[k \in 0..Len(sheet)] ==
            IF k = 0 THEN <<>>
            ELSE Gather[k - 1] \o
                 SelectSeq(Keys(sheet[k]),
                           LAMBDA key : \A j \in 1..Len(Gather[k - 1]) : Gather[k - 1][j] # key)
    IN  Gather[Len(sheet)]

\* Object.keys(rawBooksSheet[0]), Object.keys(rawGstr2bSheet[0])
FirstRecordKeys(sheet) == Keys(sheet[1])

\* The sixteen findHeader calls on the keys of each sheet's first record.
ResolveHeaders(bookHeaders, gstr2bHeaders) ==
    [bookGstinH     |-> findHeader(bookHeaders, ALIASES_gstin),
     bookBillNoH    |-> findHeader(bookHeaders, ALIASES_billNo),
     bookLegalNameH |-> findHeader(bookHeaders, ALIASES_legalName),
     bookTaxableH   |-> findHeader(bookHeaders, ALIASES_taxableValue),
     bookIgstH      |-> findHeader(bookHeaders, ALIASES_integratedTax),
     bookCgstH      |-> findHeader(bookHeaders, ALIASES_centralTax),
     bookSgstH      |-> findHeader(bookHeaders, ALIASES_stateTax),
     bookCessH      |-> findHeader(bookHeaders, ALIASES_cess),
     gstrGstinH     |-> findHeader(gstr2bHeaders, ALIASES_gstin),
     gstrBillNoH    |-> findHeader(gstr2bHeaders, ALIASES_billNo),
     gstrLegalNameH |-> findHeader(gstr2bHeaders, ALIASES_legalName),
     gstrTaxableH   |-> findHeader(gstr2bHeaders, ALIASES_taxableValue),
     gstrIgstH      |-> findHeader(gstr2bHeaders, ALIASES_integratedTax),
     gstrCgstH      |-> findHeader(gstr2bHeaders, ALIASES_centralTax),
     gstrSgstH      |-> findHeader(gstr2bHeaders, ALIASES_stateTax),
     gstrCessH      |-> findHeader(gstr2bHeaders, ALIASES_cess)]

NoHeaders == ResolveHeaders(<<>>, <<>>)

bookNumericHeaders(h) == <<h.bookTaxableH, h.bookIgstH, h.bookCgstH, h.bookSgstH, h.bookCessH>>

gstrNumericHeaders(h) == <<h.gstrTaxableH, h.gstrIgstH, h.gstrCgstH, h.gstrSgstH, h.gstrCessH>>

\* `${gstin}${billNo}`.replace(/\s/g, '').toUpperCase()
MatchKey(row, gstinH, billNoH) ==
    ToUpperCase(RemoveWhitespace(FieldText(row, gstinH) \o FieldText(row, billNoH)))

RECURSIVE BuildGstr2bMap(_, _, _, _)
\* gstr2bSheet.forEach(row => { ...; if (key) gstr2bMap.set(key, row) }), from row j on;
\* a map value is the position in gstr2bSheet of the row object it refers to.
BuildGstr2bMap(map, sheet, h, j) ==
    IF j > Len(sheet) THEN map
    ELSE LET key == MatchKey(sheet[j], h.gstrGstinH, h.gstrBillNoH)
         IN  BuildGstr2bMap(IF key # <<>> THEN Put(map, key, j) ELSE map, sheet, h, j + 1)

\* Mutant: the band is open, a difference of exactly 2 is reported.
DiffText_Strict(diff) == IF Abs(diff) < Tolerance * Scale THEN ZeroDiff ELSE ToFixed2(diff)

\* Math.abs(diff) <= 2 ? '0.00' : diff.toFixed(2)
DiffText(diff) == IF Abs(diff) <= Tolerance * Scale THEN ZeroDiff ELSE ToFixed2(diff)

RECURSIVE Spread(_, _)
\* { ...target, ...source }
Spread(target, source) ==
    IF source = <<>> THEN target
    ELSE Spread(Put(target, source[1][1], source[1][2]), Tail(source))

\* Object.fromEntries(Object.entries(gstrRow).map(([k, v]) => [`GSTR2B_${k}`, v]))
Renamed(gstrRow) ==
    [k \in 1..Len(gstrRow) |-> <<GSTR2B_Prefix \o gstrRow[k][1], gstrRow[k][2]>>]

FieldDiff(bookRow, bookH, gstrRow, gstrH) ==
    getColumnData(bookRow, bookH) - getColumnData(gstrRow, gstrH)

\* The record pushed to matchedRecords.
MatchedRecord(bookRow, gstrRow, h) ==
    Spread(Spread(bookRow,
        << <<KEY_ReconStatus, Str(STATUS_Matched)>>,
           <<KEY_DiffTaxable, Str(DiffText(FieldDiff(bookRow, h.bookTaxableH, gstrRow, h.gstrTaxableH)))>>,
           <<KEY_DiffIgst, Str(DiffText(FieldDiff(bookRow, h.bookIgstH, gstrRow, h.gstrIgstH)))>>,
           <<KEY_DiffCgst, Str(DiffText(FieldDiff(bookRow, h.bookCgstH, gstrRow, h.gstrCgstH)))>>,
           <<KEY_DiffSgst, Str(DiffText(FieldDiff(bookRow, h.bookSgstH, gstrRow, h.gstrSgstH)))>>,
           <<KEY_DiffCess, Str(DiffText(FieldDiff(bookRow, h.bookCessH, gstrRow, h.gstrCessH)))>> >>),
        Renamed(gstrRow))

\* header ? String(row[header] ?? '').trim().toLowerCase() : null
LegalName(row, header) ==
    IF header = NoHeader THEN [null |-> TRUE, s |-> <<>>]
    ELSE [null |-> FALSE, s |-> ToLowerCase(Trim(FieldText(row, header)))]

\* Mutant: the legal names are not compared.
Qualifies_AnyName(bookRow, gstrRow, h) ==
    /\ ToUpperCase(RemoveWhitespace(FieldText(bookRow, h.bookGstinH)))
           = ToUpperCase(RemoveWhitespace(FieldText(gstrRow, h.gstrGstinH)))
    /\ Abs(getColumnData(bookRow, h.bookTaxableH) - getColumnData(gstrRow, h.gstrTaxableH))
           <= Tolerance * Scale

\* Mutant: a taxable difference of exactly the tolerance does not qualify.
Qualifies_BelowTolerance(bookRow, gstrRow, h) ==
    /\ ToUpperCase(RemoveWhitespace(FieldText(bookRow, h.bookGstinH)))
           = ToUpperCase(RemoveWhitespace(FieldText(gstrRow, h.gstrGstinH)))
    /\ \/ LegalName(bookRow, h.bookLegalNameH).null
       \/ LegalName(gstrRow, h.gstrLegalNameH).null
       \/ LegalName(bookRow, h.bookLegalNameH) = LegalName(gstrRow, h.gstrLegalNameH)
    /\ Abs(getColumnData(bookRow, h.bookTaxableH) - getColumnData(gstrRow, h.gstrTaxableH))
           < Tolerance * Scale

\* The body of the candidate loop: whether pool row gstrRow qualifies for bookRow.
Qualifies(bookRow, gstrRow, h) ==
    LET bookGstin     == ToUpperCase(RemoveWhitespace(FieldText(bookRow, h.bookGstinH)))
        gstrGstin     == ToUpperCase(RemoveWhitespace(FieldText(gstrRow, h.gstrGstinH)))
        bookLegalName == LegalName(bookRow, h.bookLegalNameH)
        gstrLegalName == LegalName(gstrRow, h.gstrLegalNameH)
        legalNameIsMatch == (bookLegalName.null \/ gstrLegalName.null)
                                \/ bookLegalName = gstrLegalName
    IN  /\ bookGstin = gstrGstin
        /\ legalNameIsMatch
        /\ Abs(getColumnData(bookRow, h.bookTaxableH) - getColumnData(gstrRow, h.gstrTaxableH))
               <= Tolerance * Scale

RECURSIVE FindMatchIndex(_, _, _, _, _)
\* for (let i = 0; i < gstr2bPool.length; i++) { ... matchIndex = i; break; }: -1 if none
FindMatchIndex(pool, sheet, bookRow, h, i) ==
    IF i >= Len(pool) THEN -1
    ELSE IF Qualifies(bookRow, sheet[pool[i + 1]], h) THEN i
    ELSE FindMatchIndex(pool, sheet, bookRow, h, i + 1)

\* gstr2bPool.splice(matchIndex, 1)
Splice1(pool, matchIndex) ==
    SubSeq(pool, 1, matchIndex) \o SubSeq(pool, matchIndex + 2, Len(pool))

WithStatus(row, status) == Put(row, KEY_ReconStatus, Str(status))

columnsToRemove == <<KEY_DiffIgst, KEY_DiffCgst, KEY_DiffSgst, KEY_DiffCess>>

\* Mutant: every difference column is removed.
Cleaned_AllDiffs(row) ==
    SelectSeq(row, LAMBDA e : ~SeqContains(columnsToRemove, e[1]) /\ e[1] # KEY_DiffTaxable)

\* columnsToRemove.forEach(col => delete newRecord[col])
Cleaned(row) == SelectSeq(row, LAMBDA e : ~SeqContains(columnsToRemove, e[1]))

\* Mutant: a taxable value of 0 is not an invoice.
InvoicesOf_Positive(entries, header) ==
    SelectSeq(entries, LAMBDA e : getColumnData(e.row, header) > 0)

\* array.filter over output entries [row, book, gstr]
InvoicesOf(entries, header) ==
    SelectSeq(entries, LAMBDA e : getColumnData(e.row, header) >= 0)

CreditNotesOf(entries, header) ==
    SelectSeq(entries, LAMBDA e : getColumnData(e.row, header) < 0)

\* Mutant: the residual is split by sign whatever the report type.
InvoicesInGstr2b_BySign(type, onlyGstr2b, header) == InvoicesOf(onlyGstr2b, header)

\* invoicesInGstr2bNotInBook after the if / else if / else on gstr2bType
InvoicesInGstr2b(type, onlyGstr2b, header) ==
    IF type = "B2B" THEN onlyGstr2b
    ELSE IF type = "CDNR" THEN <<>>
    ELSE InvoicesOf(onlyGstr2b, header)

\* creditNotesInGstr2bNotInBook after the if / else if / else on gstr2bType
CreditNotesInGstr2b(type, onlyGstr2b, header) ==
    IF type = "B2B" THEN <<>>
    ELSE IF type = "CDNR" THEN onlyGstr2b
    ELSE CreditNotesOf(onlyGstr2b, header)

\* Mutant: the totals are the sums of the bucket sizes.
BuildResult_BucketTotals(type, h, rawBooks, rawGstr2b, matched, partial, onlyBooks, onlyGstr2b) ==
    [summary |-> [totalInBooks     |-> Len(matched) + Len(partial) + Len(onlyBooks),
                  totalInGstr2b    |-> Len(matched) + Len(partial) + Len(onlyGstr2b),
                  matched          |-> Len(matched),
                  partiallyMatched |-> Len(partial),
                  onlyInBooks      |-> Len(onlyBooks),
                  onlyInGstr2b     |-> Len(onlyGstr2b)],
     matchedRecords               |-> matched,
     partiallyMatchedRecords      |-> partial,
     invoicesInBookNotInGstr2b    |-> InvoicesOf(onlyBooks, h.bookTaxableH),
     creditNotesInBookNotInGstr2b |-> CreditNotesOf(onlyBooks, h.bookTaxableH),
     invoicesInGstr2bNotInBook    |-> InvoicesInGstr2b(type, onlyGstr2b, h.gstrTaxableH),
     creditNotesInGstr2bNotInBook |-> CreditNotesInGstr2b(type, onlyGstr2b, h.gstrTaxableH),
     finalReport |->
         LET all == matched \o partial \o onlyBooks \o onlyGstr2b
         IN  [k \in 1..Len(all) |-> [all[k] EXCEPT !.row = Cleaned(all[k].row)]]]

\* Final Reporting: the value reconcileData returns.
BuildResult(type, h, rawBooks, rawGstr2b, matched, partial, onlyBooks, onlyGstr2b) ==
    [summary |-> [totalInBooks     |-> Len(rawBooks),
                  totalInGstr2b    |-> Len(rawGstr2b),
                  matched          |-> Len(matched),
                  partiallyMatched |-> Len(partial),
                  onlyInBooks      |-> Len(onlyBooks),
                  onlyInGstr2b     |-> Len(onlyGstr2b)],
     matchedRecords               |-> matched,
     partiallyMatchedRecords      |-> partial,
     invoicesInBookNotInGstr2b    |-> InvoicesOf(onlyBooks, h.bookTaxableH),
     creditNotesInBookNotInGstr2b |-> CreditNotesOf(onlyBooks, h.bookTaxableH),
     invoicesInGstr2bNotInBook    |-> InvoicesInGstr2b(type, onlyGstr2b, h.gstrTaxableH),
     creditNotesInGstr2bNotInBook |-> CreditNotesInGstr2b(type, onlyGstr2b, h.gstrTaxableH),
     finalReport |->
         LET all == matched \o partial \o onlyBooks \o onlyGstr2b
         IN  [k \in 1..Len(all) |-> [all[k] EXCEPT !.row = Cleaned(all[k].row)]]]

\* ------------------------------------------------------------- the inputs

\* 'Sheet1'
T_Sheet1 == <<"S","h","e","e","t","1">>

\* 'Read me'
T_ReadMe == <<"R","e","a","d"," ","m","e">>

\* 'B2B-CDNR'
T_B2BCDNR == <<"B","2","B","-","C","D","N","R">>

\* 'GSTIN'
T_GSTIN == <<"G","S","T","I","N">>

\* 'Bill No'
T_BillNo == <<"B","i","l","l"," ","N","o">>

\* 'Party Name'
T_PartyName == <<"P","a","r","t","y"," ","N","a","m","e">>

\* 'Taxable Amt'
T_TaxableAmt == <<"T","a","x","a","b","l","e"," ","A","m","t">>

\* 'IGST'
T_IGST == <<"I","G","S","T">>

\* 'CGST'
T_CGST == <<"C","G","S","T">>

\* 'SGST'
T_SGST == <<"S","G","S","T">>

\* 'Cess'
T_Cess == <<"C","e","s","s">>

\* ' Gstin'
T_gstin == <<" ","G","s","t","i","n">>

\* 'INV NO'
T_InvNo == <<"I","N","V"," ","N","O">>

\* 'Supplier Name'
T_SupplierName == <<"S","u","p","p","l","i","e","r"," ","N","a","m","e">>

\* 'Taxable Value'
T_TaxableValue == <<"T","a","x","a","b","l","e"," ","V","a","l","u","e">>

\* 'IGST Amt'
T_IgstAmt == <<"I","G","S","T"," ","A","m","t">>

\* 'CGST Amt'
T_CgstAmt == <<"C","G","S","T"," ","A","m","t">>

\* 'SGST Amt'
T_SgstAmt == <<"S","G","S","T"," ","A","m","t">>

\* 'Cess Amt'
T_CessAmt == <<"C","e","s","s"," ","A","m","t">>

\* 'Purchase Register'
T_Title == <<"P","u","r","c","h","a","s","e"," ","R","e","g","i","s","t","e","r">>

\* 'Acme'
T_Acme == <<"A","c","m","e">>

\* 'ACME '
T_ACME == <<"A","C","M","E"," ">>

\* 'acme'
T_acme == <<"a","c","m","e">>

\* 'Zed'
T_Zed == <<"Z","e","d">>

\* The longest run of data rows in a sheet.
MaxRows == 2

Workbook(names, sheets) ==
    [readable |-> TRUE, parsable |-> TRUE, SheetNames |-> names, Sheets |-> sheets]

\* No file selected: the null of useState<File | null>(null).
NoFile == [null |-> TRUE]

\* A file FileReader cannot read (reader.onerror).
UnreadableFile == [readable |-> FALSE, parsable |-> FALSE, SheetNames |-> <<>>, Sheets |-> <<>>]

TitleRow == <<Str(T_Title), Null, Null>>

\* A workbook whose only sheet holds a title and no header row.
TitleOnlyFile == Workbook(<<T_ReadMe>>, << <<T_ReadMe, <<TitleRow>> >> >>)

FailingFiles == {UnreadableFile, TitleOnlyFile}

BooksHeaderRow ==
    <<Str(T_GSTIN), Str(T_BillNo), Str(T_PartyName), Str(T_TaxableAmt),
      Str(T_IGST), Str(T_CGST), Str(T_SGST), Str(T_Cess)>>

\* Cells: GSTIN, invoice number, legal name, taxable value, IGST, CGST, SGST, cess.
BooksRows ==
    { <<Str(<<"A">>), Num(12 * Scale), Str(T_Acme), Num(1000 * Scale),
        Num(180 * Scale), Null, Null, Num(0)>>,
      <<Str(<<" ","a">>), Str(<<"1","2"," ">>), Null, Str(<<"1",",","0","0","0",".","5">>),
        Null, Num(90 * Scale + 1), Num(90 * Scale), Str(<<"n","a">>)>>,
      <<Str(<<"A">>), Str(<<"7">>), Str(T_acme), Num(1001 * Scale),
        Num(5 * Scale), Null, Null, Null>>,
      <<Str(<<"A","1">>), Str(<<"2">>), Str(T_Zed), Num(-(500 * Scale)),
        Null, Null, Null, Null>> }

\* The full GSTR-2B header row, and one without legal-name and tax columns.
GstrHeaderRows ==
    { <<Str(T_gstin), Str(T_InvNo), Str(T_SupplierName), Str(T_TaxableValue),
        Str(T_IgstAmt), Str(T_CgstAmt), Str(T_SgstAmt), Str(T_CessAmt)>>,
      <<Str(T_gstin), Str(T_InvNo), Null, Str(T_TaxableValue)>> }

GstrRows ==
    { <<Str(<<"A">>), Str(<<"1","2">>), Str(T_ACME), Num(1002 * Scale),
        Num(178 * Scale - 1), Num(2 * Scale + 1), Null, Num(3 * Scale)>>,
      <<Str(<<"A">>), Str(<<"1"," ","2">>), Str(T_Acme), Num(1003 * Scale),
        Null, Null, Null, Null>>,
      <<Str(<<"A"," ","1">>), Str(<<"3">>), Null, Num(-(500 * Scale) - 1),
        Null, Null, Null, Null>> }

\* The most line items in a Books sheet that is consolidated.
MaxLines == 3

\* Line items: two spellings of invoice A/12, a line without GSTIN, a line with
\* a blank invoice number, two invoices whose joined key texts coincide, and
\* an invoice of another supplier.
LineItems ==
    { <<Str(<<"A">>), Num(12 * Scale), Str(T_Acme), Num(600 * Scale),
        Num(108 * Scale), Null, Null, Num(0)>>,
      <<Str(<<" ","a">>), Str(<<"1","2"," ">>), Null, Str(<<"1",",","4","0","0",".","5">>),
        Null, Num(36 * Scale + 1), Num(36 * Scale), Str(<<"n","a">>)>>,
      <<Null, Str(<<"1","2">>), Str(T_Acme), Num(50 * Scale), Null, Null, Null, Null>>,
      <<Str(<<"A">>), Str(<<" "," ">>), Str(T_Acme), Num(70 * Scale), Null, Null, Null, Null>>,
      <<Str(<<"A","-","1">>), Str(<<"2">>), Str(T_Zed), Num(10 * Scale), Null, Null, Null, Null>>,
      <<Str(<<"A">>), Str(<<"1","-","2">>), Str(T_Acme), Num(20 * Scale), Null, Null, Null, Null>>,
      <<Str(<<"B">>), Str(<<"7">>), Str(T_Zed), Num(-(5 * Scale) - 3), Null, Null, Null, Null>> }

\* The most filler rows above the first header candidate of a sheet.
MaxLead == 16

\* A row with one required alias only, and a row whose cells contain the
\* aliases without being equal to them.
NearHeaderRows ==
    { <<Str(T_GSTIN), Str(T_PartyName), Str(T_TaxableAmt)>>,
      <<Str(T_GSTIN \o <<" ">> \o T_BillNo), Str(T_BillNo \o <<":">>), Str(T_TaxableAmt)>> }

\* The header rows of a sheet: as the aliases are written, and padded in another case.
HeaderRows ==
    { BooksHeaderRow,
      <<Str(<<" ">> \o ToLowerCase(T_InvNo) \o <<" ">>), Null, Str(ToUpperCase(T_gstin)),
        Str(T_TaxableValue)>> }

\* The rows a sheet can hold above its first header candidate.
FillerRows == {TitleRow, <<>>, <<Null, Null>>, <<Str(T_Title)>>, <<Str(<<>>), Null>>}

\* A sheet: filler rows, a header candidate, and either nothing, a filler row,
\* or a filler row, a second header candidate, a line item and a blank row.
LocatorSheets ==
    UNION { { [k \in 1..lead |-> filler] \o <<first>> \o rest :
                  lead \in 0..MaxLead,
                  first \in HeaderRows \cup NearHeaderRows,
                  rest \in { <<>>, <<filler>> } \cup
                      {<<filler, second, row, <<Null, Null>>>> :
                           second \in HeaderRows,
                           row \in {r \in LineItems : r[1] = Str(<<"B">>)}} } :
            filler \in FillerRows }

\* 'Invoice Number'
T_InvoiceNumber == <<"I","n","v","o","i","c","e"," ","N","u","m","b","e","r">>

\* 'Supplier GSTIN'
T_SupplierGSTIN == <<"S","u","p","p","l","i","e","r"," ","G","S","T","I","N">>

\* The most columns of a sheet whose headers are resolved.
MaxHeaders == 4

\* Header cells: two aliases of the invoice number, one of them in two
\* spellings, two aliases of the GSTIN, a text that contains an alias, and an
\* alias of the taxable value.
HeaderCells ==
    { Str(T_BillNo), Str(<<" ">> \o ToUpperCase(T_BillNo)), Str(T_InvoiceNumber),
      Str(T_GSTIN), Str(ToLowerCase(T_SupplierGSTIN)), Str(T_BillNo \o <<":">>),
      Str(T_TaxableAmt) }

\* Workbooks whose header row is a sequence of different header cells, above
\* a row that holds the number j and a row that holds -j in column j.
ResolverWorkbooks ==
    { Workbook(<<T_Sheet1>>,
               << <<T_Sheet1, <<headerRow,
                                [j \in 1..Len(headerRow) |-> Num(j * Scale)],
                                [j \in 1..Len(headerRow) |-> Num(-(j * Scale))]>> >> >>) :
          headerRow \in SeqsUpTo(HeaderCells, MaxHeaders) }

BooksWorkbook(rows) ==
    Workbook(<<T_Sheet1>>, << <<T_Sheet1, <<TitleRow, BooksHeaderRow>> \o rows>> >>)

\* A GSTR-2B workbook in which the sheet the report type selects holds the data.
GstrWorkbook(type, headerRow, rows) ==
    LET name == IF type = "B2B" THEN SHEET_B2B
                ELSE IF type = "CDNR" THEN T_B2BCDNR ELSE T_Sheet1
        data == <<name, <<headerRow>> \o rows>>
    IN  IF type = "Other" THEN Workbook(<<name>>, <<data>>)
        ELSE Workbook(<<T_ReadMe, name>>, << <<T_ReadMe, <<TitleRow>> >>, data >>)

Gstr2bTypes == {"B2B", "CDNR", "Other"}

Sides == {"books", "gstr2b"}

\* ------------------------------------------------------------- the state

VARIABLES
    booksFile, gstr2bFile, gstr2bType,  \* App state, the arguments of reconcileData
    parse,                   \* the promise of each parseExcelFile call
    located,                 \* headerRowIndex and headers of each parse
    pc,                      \* where reconcileData is
    error,                   \* the reason reconcileData rejected with
    rawBooksSheet, rawGstr2bSheet,
    hdr,                     \* the sixteen resolved headers
    booksSheet, gstr2bSheet, \* the consolidated sheets
    gstr2bMap, matchedRecords, onlyInBooksInitial,
    gstr2bPool, partiallyMatchedRecords, finalOnlyInBooks, finalOnlyInGstr2b,
    idx,                     \* the position of the forEach under way (1-based)
    result,                  \* <<>> until reconcileData returns, then <<Result>>
    isLoading,               \* App state
    appError,                \* App state error: <<>> (null) or <<message>>
    reconciliationResult     \* App state: <<>> (null) or <<Result>>

inputs == <<booksFile, gstr2bFile, gstr2bType>>

matching == <<gstr2bMap, matchedRecords, onlyInBooksInitial, gstr2bPool,
              partiallyMatchedRecords, finalOnlyInBooks, finalOnlyInGstr2b, idx>>

app == <<isLoading, appError, reconciliationResult>>

vars == <<inputs, parse, located, pc, error, rawBooksSheet, rawGstr2bSheet, hdr,
          booksSheet, gstr2bSheet, matching, result, app>>

Idle == [state |-> "idle", value |-> <<>>, error |-> <<>>]

Pending == [state |-> "pending", value |-> <<>>, error |-> <<>>]

NotLocated == [headerRowIndex |-> -1, headers |-> <<>>]

\* The App with its files and report type selected, before Reconcile is
\* clicked.
InitWith(bf, gf, type) ==
    /\ booksFile = bf /\ gstr2bFile = gf /\ gstr2bType = type
    /\ isLoading = FALSE /\ appError = <<>> /\ reconciliationResult = <<>>
    /\ parse = [s \in Sides |-> Idle]
    /\ located = [s \in Sides |-> NotLocated]
    /\ pc = "idle" /\ error = <<>>
    /\ rawBooksSheet = <<>> /\ rawGstr2bSheet = <<>>
    /\ hdr = NoHeaders
    /\ booksSheet = <<>> /\ gstr2bSheet = <<>>
    /\ gstr2bMap = <<>> /\ matchedRecords = <<>> /\ onlyInBooksInitial = <<>>
    /\ gstr2bPool = <<>> /\ partiallyMatchedRecords = <<>>
    /\ finalOnlyInBooks = <<>> /\ finalOnlyInGstr2b = <<>>
    /\ idx = 0 /\ result = <<>>

Init ==
    \E type \in Gstr2bTypes :
        \E bf \in {BooksWorkbook(rows) : rows \in SeqsUpTo(BooksRows, MaxRows)}
                      \cup FailingFiles :
            \E gf \in {GstrWorkbook(type, hr, rows) :
                           hr \in GstrHeaderRows, rows \in SeqsUpTo(GstrRows, MaxRows)}
                          \cup FailingFiles :
                InitWith(bf, gf, type)

\* A GSTR-2B workbook of report type Other with one invoice.
OneInvoiceGstr2b ==
    GstrWorkbook("Other",
                 CHOOSE hr \in GstrHeaderRows : Len(hr) = 8,
                 <<CHOOSE r \in GstrRows : r[2] = Str(<<"3">>)>>)

\* A Books workbook with one invoice.
OneInvoiceBooks == BooksWorkbook(<<CHOOSE r \in BooksRows : r[2] = Str(<<"7">>)>>)

\* reconcileData over sheets of line items that consolidation merges, on the
\* Books side or on the GSTR-2B side.
InitConsolidate ==
    \E rows \in AllSeqsUpTo(LineItems, MaxLines) :
        \/ InitWith(BooksWorkbook(rows), OneInvoiceGstr2b, "Other")
        \/ InitWith(OneInvoiceBooks,
                    GstrWorkbook("Other", CHOOSE hr \in GstrHeaderRows : Len(hr) = 8, rows),
                    "Other")

\* reconcileData over sheets whose header row lies at any depth, on the Books
\* side or on the GSTR-2B side.
InitParse ==
    \E sheet \in LocatorSheets :
        \/ InitWith(Workbook(<<T_Sheet1>>, << <<T_Sheet1, sheet>> >>), OneInvoiceGstr2b, "Other")
        \/ InitWith(OneInvoiceBooks, Workbook(<<T_Sheet1>>, << <<T_Sheet1, sheet>> >>), "Other")

\* reconcileData over Books sheets whose columns come in any order.
InitResolve ==
    \E bf \in ResolverWorkbooks : InitWith(bf, OneInvoiceGstr2b, "Other")

\* A Books workbook whose first row under the header row holds one cell.
ShortRowBooks ==
    Workbook(<<T_Sheet1>>, << <<T_Sheet1, <<BooksHeaderRow, <<Str(T_Title)>>>> >> >>)

\* The App with any of a few files selected on each side, or none.
InitApp ==
    \E type \in Gstr2bTypes :
        \E bf \in {BooksWorkbook(<<r>>) : r \in BooksRows}
                      \cup {BooksWorkbook(<<>>), ShortRowBooks, NoFile} \cup FailingFiles :
            \E gf \in {GstrWorkbook(type, hr, <<r>>) : hr \in GstrHeaderRows, r \in GstrRows}
                          \cup {NoFile} \cup FailingFiles :
                InitWith(bf, gf, type)

\* ----------------------------------------------------------- the actions

\* reconcileData is called: an activation with locals of its own, in which
\* both parses are started.
Start ==
    /\ pc' = "await"
    /\ parse' = [s \in Sides |-> Pending]
    /\ located' = [s \in Sides |-> NotLocated]
    /\ error' = <<>>
    /\ rawBooksSheet' = <<>> /\ rawGstr2bSheet' = <<>>
    /\ hdr' = NoHeaders
    /\ booksSheet' = <<>> /\ gstr2bSheet' = <<>>
    /\ gstr2bMap' = <<>> /\ matchedRecords' = <<>> /\ onlyInBooksInitial' = <<>>
    /\ gstr2bPool' = <<>> /\ partiallyMatchedRecords' = <<>>
    /\ finalOnlyInBooks' = <<>> /\ finalOnlyInGstr2b' = <<>>
    /\ idx' = 0 /\ result' = <<>>
    /\ UNCHANGED inputs

\* 'Please upload both files before reconciling.'
MSG_UploadBoth == <<"Please upload both files before reconciling.">>

\* Mutant: the button is disabled by a missing file alone.
ReconcileDisabled_FilesOnly == booksFile = NoFile \/ gstr2bFile = NoFile

\* disabled={!booksFile || !gstr2bFile || isLoading}
ReconcileDisabled == booksFile = NoFile \/ gstr2bFile = NoFile \/ isLoading

\* A click on the Reconcile button: handleReconcile up to its await.
handleReconcile ==
    /\ ~ReconcileDisabled
    /\ IF booksFile = NoFile \/ gstr2bFile = NoFile
       THEN /\ appError' = <<MSG_UploadBoth>>
            /\ UNCHANGED <<inputs, parse, located, pc, error, rawBooksSheet, rawGstr2bSheet,
                           hdr, booksSheet, gstr2bSheet, matching, result, isLoading,
                           reconciliationResult>>
       ELSE /\ isLoading' = TRUE
            /\ appError' = <<>>
            /\ reconciliationResult' = <<>>
            /\ Start

\* err instanceof Error ? err.message : 'An unknown error occurred during
\* reconciliation.': every rejection of reconcileData is an Error, whose
\* message the reason stands for.
MessageOf(err) == err

\* The await in handleReconcile ends: setReconciliationResult(result) in the
\* try block, or setError in the catch block.
AwaitSettles ==
    /\ isLoading /\ pc \in {"done", "failed"}
    /\ appError = <<>> /\ reconciliationResult = <<>>
    /\ IF pc = "done"
       THEN reconciliationResult' = result /\ UNCHANGED appError
       ELSE appError' = <<MessageOf(error)>> /\ UNCHANGED reconciliationResult
    /\ UNCHANGED <<inputs, parse, located, pc, error, rawBooksSheet, rawGstr2bSheet, hdr,
                   booksSheet, gstr2bSheet, matching, result, isLoading>>

\* The finally block of handleReconcile: setIsLoading(false).
Finally ==
    /\ isLoading /\ (appError # <<>> \/ reconciliationResult # <<>>)
    /\ isLoading' = FALSE
    /\ UNCHANGED <<inputs, parse, located, pc, error, rawBooksSheet, rawGstr2bSheet, hdr,
                   booksSheet, gstr2bSheet, matching, result, appError,
                   reconciliationResult>>

\* Mutant: Promise.allSettled, fulfilled once both have settled.
PromiseAll_Settled(p) ==
    IF \A s \in Sides : p[s].state \in {"fulfilled", "rejected"} THEN "fulfilled"
    ELSE "pending"

\* Promise.all over the two parse promises: rejected once one is, fulfilled
\* once all are.
PromiseAll(p) ==
    IF \E s \in Sides : p[s].state = "rejected" THEN "rejected"
    ELSE IF \A s \in Sides : p[s].state = "fulfilled" THEN "fulfilled"
    ELSE "pending"

FileOf(side) == IF side = "books" THEN booksFile ELSE gstr2bFile

SheetNameOf(side) == IF side = "books" THEN <<>> ELSE gstr2bSheetName(gstr2bType)

FileNameOf(side) == IF side = "books" THEN FILE_Books ELSE FILE_Gstr2b

\* reader.onload / reader.onerror of one file: its promise settles, and with it
\* Promise.all and the await in reconcileData: the first rejection rejects
\* reconcileData, the second fulfilment resumes it.
ReaderSettle(side) ==
    /\ parse[side].state = "pending"
    /\ \E r \in {parseExcelFile(FileOf(side), SheetNameOf(side), FileNameOf(side))} :
           /\ parse' = [parse EXCEPT ![side] =
                    IF r.ok THEN [state |-> "fulfilled", value |-> r.value, error |-> <<>>]
                    ELSE [state |-> "rejected", value |-> <<>>, error |-> r.error]]
           /\ located' = [located EXCEPT ![side] = r.located]
           /\ IF pc = "await" /\ PromiseAll(parse') = "rejected"
              THEN /\ pc' = "failed" /\ error' = r.error
                   /\ UNCHANGED <<rawBooksSheet, rawGstr2bSheet>>
              ELSE IF pc = "await" /\ PromiseAll(parse') = "fulfilled"
              THEN /\ pc' = "resolve"
                   /\ rawBooksSheet' = parse'["books"].value
                   /\ rawGstr2bSheet' = parse'["gstr2b"].value
                   /\ UNCHANGED error
              ELSE UNCHANGED <<pc, error, rawBooksSheet, rawGstr2bSheet>>
    /\ UNCHANGED <<app, inputs, hdr, booksSheet, gstr2bSheet, matching, result>>

\* Header resolution and the two required-column checks.
ResolveStep ==
    /\ pc = "resolve"
    /\ \E h \in {ResolveHeaders(FirstRecordKeys(rawBooksSheet),
                               FirstRecordKeys(rawGstr2bSheet))} :
           /\ hdr' = h
           /\ IF h.bookGstinH = NoHeader \/ h.bookBillNoH = NoHeader
              THEN pc' = "failed" /\ error' = <<"MissingRequiredColumn", FILE_Books>>
              ELSE IF h.gstrGstinH = NoHeader \/ h.gstrBillNoH = NoHeader
              THEN pc' = "failed" /\ error' = <<"MissingRequiredColumn", FILE_Gstr2b>>
              ELSE pc' = "consolidate" /\ UNCHANGED error
    /\ UNCHANGED <<app, inputs, parse, located, rawBooksSheet, rawGstr2bSheet,
                   booksSheet, gstr2bSheet, matching, result>>

\* Data Consolidation of both sheets.
ConsolidateStep ==
    /\ pc = "consolidate"
    /\ \E b \in {consolidateInvoices(rawBooksSheet, hdr.bookGstinH, hdr.bookBillNoH,
                                      hdr.bookLegalNameH, bookNumericHeaders(hdr))} :
           booksSheet' = b
    /\ \E g \in {consolidateInvoices(rawGstr2bSheet, hdr.gstrGstinH, hdr.gstrBillNoH,
                                      hdr.gstrLegalNameH, gstrNumericHeaders(hdr))} :
           gstr2bSheet' = g
    /\ pc' = "buildMap"
    /\ UNCHANGED <<app, inputs, parse, located, error, rawBooksSheet, rawGstr2bSheet, hdr,
                   matching, result>>

\* Step 1 begins: gstr2bMap is built.
BuildMapStep ==
    /\ pc = "buildMap"
    /\ gstr2bMap' = BuildGstr2bMap(<<>>, gstr2bSheet, hdr, 1)
    /\ pc' = "phase1" /\ idx' = 1
    /\ UNCHANGED <<app, inputs, parse, located, error, rawBooksSheet, rawGstr2bSheet, hdr,
                   booksSheet, gstr2bSheet, matchedRecords, onlyInBooksInitial, gstr2bPool,
                   partiallyMatchedRecords, finalOnlyInBooks, finalOnlyInGstr2b, result>>

\* Mutant: the row is pushed whether or not it matched.
Unmatched_Always(list, book, found) == Append(list, book)

\* onlyInBooksInitial after a turn of booksSheet.forEach: the else branch
\* alone pushes the row (its position in booksSheet).
Unmatched(list, book, found) == IF found THEN list ELSE Append(list, book)

\* One turn of booksSheet.forEach (Step 1: Exact Match).
Phase1Step ==
    /\ pc = "phase1" /\ idx <= Len(booksSheet)
    /\ \E key \in {MatchKey(booksSheet[idx], hdr.bookGstinH, hdr.bookBillNoH)} :
           IF Has(gstr2bMap, key)
           THEN /\ \E row \in {MatchedRecord(booksSheet[idx],
                                              gstr2bSheet[Get(gstr2bMap, key)], hdr)} :
                       matchedRecords' = Append(matchedRecords,
                           [row |-> row, book |-> idx, gstr |-> Get(gstr2bMap, key)])
                /\ gstr2bMap' = Delete(gstr2bMap, key)
                /\ onlyInBooksInitial' = Unmatched(onlyInBooksInitial, idx, TRUE)
           ELSE /\ UNCHANGED <<matchedRecords, gstr2bMap>>
                /\ onlyInBooksInitial' = Unmatched(onlyInBooksInitial, idx, FALSE)
    /\ idx' = idx + 1
    /\ UNCHANGED <<app, inputs, parse, located, pc, error, rawBooksSheet, rawGstr2bSheet, hdr,
                   booksSheet, gstr2bSheet, gstr2bPool, partiallyMatchedRecords,
                   finalOnlyInBooks, finalOnlyInGstr2b, result>>

\* Step 2 begins: the pool is what is left in the map.
Phase1Done ==
    /\ pc = "phase1" /\ idx > Len(booksSheet)
    /\ gstr2bPool' = Values(gstr2bMap)
    /\ pc' = "phase2" /\ idx' = 1
    /\ UNCHANGED <<app, inputs, parse, located, error, rawBooksSheet, rawGstr2bSheet, hdr,
                   booksSheet, gstr2bSheet, gstr2bMap, matchedRecords, onlyInBooksInitial,
                   partiallyMatchedRecords, finalOnlyInBooks, finalOnlyInGstr2b, result>>

\* One turn of onlyInBooksInitial.forEach (Step 2: Partial Match).
Phase2Step ==
    /\ pc = "phase2" /\ idx <= Len(onlyInBooksInitial)
    /\ \E matchIndex \in {FindMatchIndex(gstr2bPool, gstr2bSheet,
                                           booksSheet[onlyInBooksInitial[idx]], hdr, 0)} :
       LET b       == onlyInBooksInitial[idx]
           bookRow == booksSheet[b]
           g       == gstr2bPool[matchIndex + 1]
       IN  IF matchIndex # -1
           THEN /\ \E row \in {WithStatus(Spread(bookRow, Renamed(gstr2bSheet[g])),
                                           STATUS_PartiallyMatched)} :
                       partiallyMatchedRecords' = Append(partiallyMatchedRecords,
                           [row |-> row, book |-> b, gstr |-> g])
                /\ gstr2bPool' = Splice1(gstr2bPool, matchIndex)
                /\ UNCHANGED finalOnlyInBooks
           ELSE /\ finalOnlyInBooks' = Append(finalOnlyInBooks,
                       [row |-> WithStatus(bookRow, STATUS_OnlyInBooks), book |-> b, gstr |-> 0])
                /\ UNCHANGED <<partiallyMatchedRecords, gstr2bPool>>
    /\ idx' = idx + 1
    /\ UNCHANGED <<app, inputs, parse, located, pc, error, rawBooksSheet, rawGstr2bSheet, hdr,
                   booksSheet, gstr2bSheet, gstr2bMap, matchedRecords, onlyInBooksInitial,
                   finalOnlyInGstr2b, result>>

\* Final Reporting: reconcileData returns.
ReportStep ==
    /\ pc = "phase2" /\ idx > Len(onlyInBooksInitial)
    /\ LET onlyGstr2b == [k \in 1..Len(gstr2bPool) |->
                             [row  |-> WithStatus(gstr2bSheet[gstr2bPool[k]], STATUS_OnlyInGstr2b),
                              book |-> 0, gstr |-> gstr2bPool[k]]]
       IN  /\ finalOnlyInGstr2b' = onlyGstr2b
           /\ result' = <<BuildResult(gstr2bType, hdr, rawBooksSheet, rawGstr2bSheet,
                                      matchedRecords, partiallyMatchedRecords,
                                      finalOnlyInBooks, onlyGstr2b)>>
    /\ pc' = "done"
    /\ UNCHANGED <<app, inputs, parse, located, error, rawBooksSheet, rawGstr2bSheet, hdr,
                   booksSheet, gstr2bSheet, gstr2bMap, matchedRecords, onlyInBooksInitial,
                   gstr2bPool, partiallyMatchedRecords, finalOnlyInBooks, idx>>

Next ==
    \/ handleReconcile
    \/ \E side \in Sides : ReaderSettle(side)
    \/ ResolveStep
    \/ ConsolidateStep
    \/ BuildMapStep
    \/ Phase1Step
    \/ Phase1Done
    \/ Phase2Step
    \/ ReportStep
    \/ AwaitSettles
    \/ Finally

Spec == Init /\ [][Next]_vars

SpecConsolidate == InitConsolidate /\ [][Next]_vars

SpecParse == InitParse /\ [][Next]_vars

SpecResolve == InitResolve /\ [][Next]_vars

\* The steps of reconcileData: the file readers' events and its continuation.
Compute ==
    \/ \E side \in Sides : ReaderSettle(side)
    \/ ResolveStep \/ ConsolidateStep \/ BuildMapStep \/ Phase1Step \/ Phase1Done
    \/ Phase2Step \/ ReportStep

\* A step of Compute is enabled: a file reader has an event to fire, or
\* reconcileData has a continuation to run.
ComputeDue ==
    \/ \E side \in Sides : parse[side].state = "pending"
    \/ pc \in {"resolve", "consolidate", "buildMap", "phase1", "phase2"}

\* The event loop: a reader's event fires and a continuation runs once it is
\* due.  For Compute this is WF_vars(Compute) with ENABLED <<Compute>>_vars
\* written out as ComputeDue.
EventLoop ==
    /\ []<>(~ComputeDue) \/ []<><<Compute>>_vars
    /\ WF_vars(AwaitSettles)
    /\ WF_vars(Finally)

\* The App under its event loop; the user clicks when they like.
SpecApp == InitApp /\ [][Next]_vars /\ EventLoop

\* ------------------------------------------------------------ the claims

Range(q) == {q[k] : k \in 1..Len(q)}

\* The output records that hold a GSTR-2B record, in report order.
GstrSide == matchedRecords \o partiallyMatchedRecords \o finalOnlyInGstr2b

\* The output records that hold a Books record, in report order.
BooksSide == matchedRecords \o partiallyMatchedRecords \o finalOnlyInBooks

Returned == pc = "done" /\ result # <<>>

\* C1: when reconcileData returns, matched + partiallyMatched + onlyInGstr2b
\* equals the number of consolidated GSTR-2B records.
C1_Gstr2bAccounted ==
    Returned =>
        result[1].summary.matched + result[1].summary.partiallyMatched
            + result[1].summary.onlyInGstr2b = Len(gstr2bSheet)

\* C2: every consolidated Books record ends in exactly one of Matched,
\* Partially Matched and Only in Books, the three counts sum to the number of
\* consolidated Books records, and a record matched in Phase 1 is never among
\* those handed to Phase 2.
C2_BooksPartition ==
    /\ \A e \in Range(matchedRecords) : e.book \notin Range(onlyInBooksInitial)
    /\ \A e \in Range(partiallyMatchedRecords) \cup Range(finalOnlyInBooks) :
           e.book \in Range(onlyInBooksInitial)
    /\ Returned =>
           /\ result[1].summary.matched + result[1].summary.partiallyMatched
                  + result[1].summary.onlyInBooks = Len(booksSheet)
           /\ \A b \in 1..Len(booksSheet) :
                  Cardinality({k \in 1..Len(BooksSide) : BooksSide[k].book = b}) = 1

\* reconcileData returned with a Matched and a Partially Matched record.
C2_Witness ==
    Returned /\ Len(matchedRecords) >= 1 /\ Len(partiallyMatchedRecords) >= 1

\* C3: at every point of the two loops no GSTR-2B record is held by two output
\* records, one paired in Phase 1 is neither in the map nor in the pool, one
\* paired in Phase 2 is no longer in the pool, and the pool holds no record twice.
C3_Gstr2bUsedOnce ==
    /\ \A j, k \in 1..Len(GstrSide) : j # k => GstrSide[j].gstr # GstrSide[k].gstr
    /\ \A e \in Range(matchedRecords) :
           e.gstr \notin Range(Values(gstr2bMap)) /\ e.gstr \notin Range(gstr2bPool)
    /\ \A e \in Range(partiallyMatchedRecords) : e.gstr \notin Range(gstr2bPool)
    /\ \A j, k \in 1..Len(gstr2bPool) : j # k => gstr2bPool[j] # gstr2bPool[k]

\* A GSTR-2B record was matched in Phase 1 and a later Books record had the
\* same Match Key, and another GSTR-2B record was paired in Phase 2.
C3_Witness ==
    /\ Returned /\ Len(partiallyMatchedRecords) >= 1
    /\ \E e \in Range(matchedRecords) : \E b \in 1..Len(booksSheet) :
           /\ b > e.book
           /\ MatchKey(booksSheet[b], hdr.bookGstinH, hdr.bookBillNoH)
                  = MatchKey(gstr2bSheet[e.gstr], hdr.gstrGstinH, hdr.gstrBillNoH)

\* reconcileData is past the await, in consolidation, matching or reporting.
Proper == pc \in {"resolve", "consolidate", "buildMap", "phase1", "phase2", "done"}

NothingProduced ==
    /\ result = <<>> /\ booksSheet = <<>> /\ gstr2bSheet = <<>>
    /\ matchedRecords = <<>> /\ partiallyMatchedRecords = <<>>
    /\ finalOnlyInBooks = <<>> /\ finalOnlyInGstr2b = <<>>

\* C5: the two parses are started together; reconcileData goes on to
\* consolidation and matching only with both parses fulfilled; once a parse is
\* rejected, whatever the other one has done or does later, reconcileData has
\* failed and has produced nothing; a Result exists only after it returns.
C5_BothParsesOrNothing ==
    /\ (pc = "idle") <=> (\A s \in Sides : parse[s].state = "idle")
    /\ (pc = "idle") <=> (\E s \in Sides : parse[s].state = "idle")
    /\ Proper => \A s \in Sides : parse[s].state = "fulfilled"
    /\ (\E s \in Sides : parse[s].state = "rejected") => pc = "failed" /\ NothingProduced
    /\ pc = "failed" => result = <<>>
    /\ result # <<>> => pc = "done"

\* One parse was rejected while the other was still pending, and reconcileData
\* had already failed.
C5_Witness ==
    /\ parse["gstr2b"].state = "rejected" /\ parse["books"].state = "pending"
    /\ pc = "failed" /\ error # <<>>

\* The five amount fields: the difference key of a Matched record, and the
\* Books and GSTR-2B headers of the amount.
AmountFields ==
    << <<KEY_DiffTaxable, hdr.bookTaxableH, hdr.gstrTaxableH>>,
       <<KEY_DiffIgst, hdr.bookIgstH, hdr.gstrIgstH>>,
       <<KEY_DiffCgst, hdr.bookCgstH, hdr.gstrCgstH>>,
       <<KEY_DiffSgst, hdr.bookSgstH, hdr.gstrSgstH>>,
       <<KEY_DiffCess, hdr.bookCessH, hdr.gstrCessH>> >>

\* The Books value minus the GSTR-2B value of amount field f of a Matched record.
AmountDiff(e, f) ==
    getColumnData(booksSheet[e.book], AmountFields[f][2])
        - getColumnData(gstr2bSheet[e.gstr], AmountFields[f][3])

\* text is a decimal numeral with exactly two decimals whose value is the
\* amount d (in 1/Scale units) rounded to hundredths.
IsRoundedTo2(text, d) ==
    /\ Len(text) >= 4 /\ text[Len(text) - 2] = "."
    /\ \A k \in 1..Len(text) :
           IsDigit(text[k]) \/ (k = Len(text) - 2) \/ (k = 1 /\ text[k] = "-")
    /\ LET digits == SelectSeq(text, IsDigit)
           cents  == IF text[1] = "-" THEN -DigitsValue(digits) ELSE DigitsValue(digits)
       IN  2 * Abs(100 * d - Scale * cents) <= Scale

\* C6: in every Matched record each of the five differences is "0.00" when
\* |Books - GSTR-2B| <= 2, and Books - GSTR-2B rounded to 2 decimals otherwise.
C6_DifferenceTolerance ==
    \A e \in Range(matchedRecords) : \A f \in 1..5 :
        LET text == Get(e.row, AmountFields[f][1]).s
        IN  IF Abs(AmountDiff(e, f)) <= 2 * Scale
            THEN text = <<"0", ".", "0", "0">>
            ELSE IsRoundedTo2(text, AmountDiff(e, f))

\* A Matched record with one difference of exactly 2 and one that needs rounding.
C6_Witness ==
    \E e \in Range(matchedRecords) :
        /\ \E f \in 1..5 : Abs(AmountDiff(e, f)) = 2 * Scale
        /\ \E f \in 1..5 : Abs(AmountDiff(e, f)) > 2 * Scale
                               /\ (100 * AmountDiff(e, f)) % Scale # 0

Gstr2bTaxable(e) == getColumnData(e.row, hdr.gstrTaxableH)

Compatible(bookRow, gstrRow) ==
    /\ ToUpperCase(RemoveWhitespace(FieldText(bookRow, hdr.bookGstinH)))
           = ToUpperCase(RemoveWhitespace(FieldText(gstrRow, hdr.gstrGstinH)))
    /\ \/ hdr.bookLegalNameH = NoHeader
       \/ hdr.gstrLegalNameH = NoHeader
       \/ ToLowerCase(Trim(FieldText(bookRow, hdr.bookLegalNameH)))
              = ToLowerCase(Trim(FieldText(gstrRow, hdr.gstrLegalNameH)))
    /\ Abs(getColumnData(bookRow, hdr.bookTaxableH)
               - getColumnData(gstrRow, hdr.gstrTaxableH)) <= 2 * Scale

StatusOf(e) == Get(e.row, KEY_ReconStatus).s

\* What C8 asks of one turn of Phase 2, for the Books record b it handles.
C8_Turn ==
    LET b     == onlyInBooksInitial[idx]
        cands == {k \in 1..Len(gstr2bPool) :
                      Compatible(booksSheet[b], gstr2bSheet[gstr2bPool[k]])}
    IN  /\ ~Has(gstr2bMap, MatchKey(booksSheet[b], hdr.bookGstinH, hdr.bookBillNoH))
        /\ \A e \in Range(matchedRecords) : e.book # b
        /\ IF cands = {}
           THEN /\ Len(finalOnlyInBooks') = Len(finalOnlyInBooks) + 1
                /\ SubSeq(finalOnlyInBooks', 1, Len(finalOnlyInBooks)) = finalOnlyInBooks
                /\ finalOnlyInBooks'[Len(finalOnlyInBooks')].book = b
                /\ StatusOf(finalOnlyInBooks'[Len(finalOnlyInBooks')]) = STATUS_OnlyInBooks
                /\ UNCHANGED <<partiallyMatchedRecords, gstr2bPool>>
           ELSE /\ Len(partiallyMatchedRecords') = Len(partiallyMatchedRecords) + 1
                /\ SubSeq(partiallyMatchedRecords', 1, Len(partiallyMatchedRecords))
                       = partiallyMatchedRecords
                /\ \E k \in cands :
                       /\ partiallyMatchedRecords'[Len(partiallyMatchedRecords')].book = b
                       /\ partiallyMatchedRecords'[Len(partiallyMatchedRecords')].gstr
                              = gstr2bPool[k]
                       /\ gstr2bPool' = SubSeq(gstr2bPool, 1, k - 1)
                                            \o SubSeq(gstr2bPool, k + 1, Len(gstr2bPool))
                /\ StatusOf(partiallyMatchedRecords'[Len(partiallyMatchedRecords')])
                       = STATUS_PartiallyMatched
                /\ UNCHANGED finalOnlyInBooks

\* C8: every Partially Matched record pairs a Books record and a GSTR-2B
\* record that Phase 1 left unmatched and that meet the criterion below; each
\* turn of Phase 2 takes a Books record that found no exact key match and, when the remaining pool holds a GSTR-2B record with the same GSTIN
\* (white space removed, upper-cased), a legal name that is absent on a side or
\* equal after trim and case folding, and a taxable value within 2, pairs it
\* with such a record as Partially Matched and removes that record from the
\* pool; when the pool holds none, it tags the Books record Only in Books.
C8_TolerantMatch ==
    /\ [](\A e \in Range(partiallyMatchedRecords) :
              /\ Compatible(booksSheet[e.book], gstr2bSheet[e.gstr])
              /\ \A m \in Range(matchedRecords) : m.book # e.book /\ m.gstr # e.gstr)
    /\ [][(pc = "phase2" /\ pc' = "phase2") => C8_Turn]_vars

\* A Partially Matched pair with both legal-name headers resolved, names that
\* differ as written, and taxable values exactly 2 apart.
C8_Witness ==
    /\ hdr.bookLegalNameH # NoHeader /\ hdr.gstrLegalNameH # NoHeader
    /\ \E e \in Range(partiallyMatchedRecords) :
           /\ FieldText(booksSheet[e.book], hdr.bookLegalNameH)
                  # FieldText(gstr2bSheet[e.gstr], hdr.gstrLegalNameH)
           /\ Abs(getColumnData(booksSheet[e.book], hdr.bookTaxableH)
                      - getColumnData(gstr2bSheet[e.gstr], hdr.gstrTaxableH)) = 2 * Scale

\* consolidateInvoices has returned for both sheets.
Consolidated == pc \in {"buildMap", "phase1", "phase2", "done"}

\* The trimmed, upper-cased GSTIN and the trimmed, upper-cased invoice number.
KeyParts(record, gstinHeader, billNoHeader) ==
    <<ToUpperCase(Trim(FieldText(record, gstinHeader))),
      ToUpperCase(Trim(FieldText(record, billNoHeader)))>>

NoSharedKey(sheet, gstinHeader, billNoHeader) ==
    \A j, k \in 1..Len(sheet) :
        j # k => KeyParts(sheet[j], gstinHeader, billNoHeader)
                     # KeyParts(sheet[k], gstinHeader, billNoHeader)

\* C4: no two records of the output of consolidateInvoices have the same
\* trimmed, upper-cased GSTIN and the same trimmed, upper-cased invoice number.
C4_ConsolidationKeyUnique ==
    Consolidated =>
        /\ NoSharedKey(booksSheet, hdr.bookGstinH, hdr.bookBillNoH)
        /\ NoSharedKey(gstr2bSheet, hdr.gstrGstinH, hdr.gstrBillNoH)

\* Line items whose GSTIN is written differently were merged, and the output
\* still holds several records.
C4_Witness ==
    /\ Consolidated /\ Len(booksSheet) >= 2
    /\ \E j, k \in 1..Len(rawBooksSheet) :
           /\ FieldText(rawBooksSheet[j], hdr.bookGstinH)
                  # FieldText(rawBooksSheet[k], hdr.bookGstinH)
           /\ KeyParts(rawBooksSheet[j], hdr.bookGstinH, hdr.bookBillNoH)
                  = KeyParts(rawBooksSheet[k], hdr.bookGstinH, hdr.bookBillNoH)
           /\ KeyParts(rawBooksSheet[j], hdr.bookGstinH, hdr.bookBillNoH)[1] # <<>>
           /\ KeyParts(rawBooksSheet[j], hdr.bookGstinH, hdr.bookBillNoH)[2] # <<>>

\* The trimmed cells of a sheet row, as text.
TrimmedCells(row) == [j \in 1..Len(row) |-> Trim(StringOrEmpty(row[j]))]

\* A trimmed cell of the row equals an alias of the list, letter case aside.
HoldsAlias(row, aliases) ==
    \E j \in 1..Len(row) : \E a \in 1..Len(aliases) :
        ToLowerCase(TrimmedCells(row)[j]) = ToLowerCase(aliases[a])

QualifyingRows(sheetData) ==
    {i \in 0..(Len(sheetData) - 1) :
         /\ i < 15
         /\ HoldsAlias(sheetData[i + 1], ALIASES_gstin)
         /\ HoldsAlias(sheetData[i + 1], ALIASES_billNo)}

\* The sheet a parse that got as far as the header scan has read.
ScannedSheet(side) == Get(FileOf(side).Sheets, TargetSheetName(FileOf(side), SheetNameOf(side)))

Scanned(side) ==
    /\ parse[side].state \in {"fulfilled", "rejected"}
    /\ FileOf(side).readable /\ FileOf(side).parsable /\ Len(FileOf(side).SheetNames) > 0
    /\ TargetSheetName(FileOf(side), SheetNameOf(side)) # <<>>
    /\ Has(FileOf(side).Sheets, TargetSheetName(FileOf(side), SheetNameOf(side)))
    /\ Len(ScannedSheet(side)) >= 1

\* C9: the header row is the row of smallest index below min(15, number of
\* rows) whose trimmed cells hold a GSTIN alias and an invoice-number alias,
\* letter case aside, and the headers are its trimmed cells; when no such row
\* exists the parse fails with HeaderNotFound.
C9_HeaderRowLocator ==
    \A side \in Sides :
        Scanned(side) =>
            LET rows == QualifyingRows(ScannedSheet(side))
            IN  IF rows = {}
                THEN /\ parse[side].state = "rejected"
                     /\ parse[side].error = <<"HeaderNotFound", FileNameOf(side)>>
                ELSE /\ located[side].headerRowIndex \in rows
                     /\ \A i \in rows : located[side].headerRowIndex <= i
                     /\ located[side].headers
                            = TrimmedCells(ScannedSheet(side)[located[side].headerRowIndex + 1])
                     /\ parse[side].state = "rejected" => parse[side].error[1] # "HeaderNotFound"

\* The only rows with both aliases lie at index 15 or later, and the parse
\* failed with HeaderNotFound.
C9_Witness ==
    /\ Scanned("books") /\ QualifyingRows(ScannedSheet("books")) = {}
    /\ \E i \in 16..Len(ScannedSheet("books")) :
           /\ HoldsAlias(ScannedSheet("books")[i], ALIASES_gstin)
           /\ HoldsAlias(ScannedSheet("books")[i], ALIASES_billNo)
    /\ parse["books"].error = <<"HeaderNotFound", FILE_Books>>

\* The Consolidation Key: the trimmed, upper-cased GSTIN and invoice number,
\* joined.
KeyText(record, gstinHeader, billNoHeader) ==
    KeyParts(record, gstinHeader, billNoHeader)[1] \o <<"-">>
        \o KeyParts(record, gstinHeader, billNoHeader)[2]

\* The input records with a GSTIN and an invoice number.
Keyed(records, gstinHeader, billNoHeader) ==
    {k \in 1..Len(records) :
         /\ KeyParts(records[k], gstinHeader, billNoHeader)[1] # <<>>
         /\ KeyParts(records[k], gstinHeader, billNoHeader)[2] # <<>>}

RECURSIVE SumOver(_, _, _)
\* The sum of the coerced values of a column over a set of input records.
SumOver(records, S, header) ==
    IF S = {} THEN 0
    ELSE LET k == CHOOSE x \in S : TRUE
         IN  getColumnData(records[k], header) + SumOver(records, S \ {k}, header)

\* out is the consolidation of records: one record per key of the keyed
\* records, in the order the keys first appear, each numeric field the sum of
\* the coerced values over the records of the key.
ConsolidationOf(out, records, gstinHeader, billNoHeader, numericHeaders) ==
    LET keyed == Keyed(records, gstinHeader, billNoHeader)
        key(k) == KeyText(records[k], gstinHeader, billNoHeader)
        firsts == {k \in keyed : \A j \in keyed : j < k => key(j) # key(k)}
    IN  /\ Len(out) = Cardinality({key(k) : k \in keyed})
        /\ Len(out) = Cardinality(firsts)
        /\ \A k \in firsts :
               LET p    == Cardinality({j \in firsts : j <= k})
                   same == {j \in keyed : key(j) = key(k)}
               IN  /\ KeyText(out[p], gstinHeader, billNoHeader) = key(k)
                   /\ \A n \in 1..Len(numericHeaders) :
                          numericHeaders[n] # NoHeader =>
                              Get(out[p], numericHeaders[n])
                                  = Num(SumOver(records, same, numericHeaders[n]))

Located(side) == Scanned(side) /\ located[side].headerRowIndex >= 0

\* The positions of a sheet row that go into its record: those with a header
\* name, within the row.
KeptPositions(side, row) ==
    {j \in 1..Len(located[side].headers) : j <= Len(row) /\ located[side].headers[j] # <<>>}

\* The (1-based) rows below the header row whose record holds a value other
\* than null and the empty string.
DataRowsKept(side) ==
    {i \in (located[side].headerRowIndex + 2)..Len(ScannedSheet(side)) :
         \E j \in KeptPositions(side, ScannedSheet(side)[i]) :
             /\ ScannedSheet(side)[i][j] # Null
             /\ ScannedSheet(side)[i][j] # Str(<<>>)}

\* record holds the cells of row at the kept positions, under their headers.
RecordOfRow(side, record, row) ==
    /\ {record[k][1] : k \in 1..Len(record)}
           = {located[side].headers[j] : j \in KeptPositions(side, row)}
    /\ \A a, b \in 1..Len(record) : a # b => record[a][1] # record[b][1]
    /\ \A j \in KeptPositions(side, row) :
           (\A j2 \in KeptPositions(side, row) :
                j2 > j => located[side].headers[j2] # located[side].headers[j])
               => Get(record, located[side].headers[j]) = row[j]

\* C11: the records of a parse are built from the rows strictly below the
\* header row, in order, each from the cells at positions that have a header
\* name and lie within the row; a record whose values are all null or empty
\* is discarded; with no record left the parse fails with EmptyDataset.
C11_Materializer ==
    \A side \in Sides :
        Located(side) =>
            IF DataRowsKept(side) = {}
            THEN /\ parse[side].state = "rejected"
                 /\ parse[side].error = <<"EmptyDataset", FileNameOf(side)>>
            ELSE /\ parse[side].state = "fulfilled"
                 /\ Len(parse[side].value) = Cardinality(DataRowsKept(side))
                 /\ \A i \in DataRowsKept(side) :
                        RecordOfRow(side,
                                    parse[side].value[Cardinality({k \in DataRowsKept(side) : k <= i})],
                                    ScannedSheet(side)[i])

\* A sheet with rows above the header row, a header row with a nameless
\* column, a discarded row below it and a kept row shorter than the header row.
C11_Witness ==
    /\ Located("books") /\ located["books"].headerRowIndex >= 3
    /\ parse["books"].state = "fulfilled"
    /\ \E j \in 1..Len(located["books"].headers) : located["books"].headers[j] = <<>>
    /\ Len(parse["books"].value)
           < Len(ScannedSheet("books")) - (located["books"].headerRowIndex + 1)
    /\ \E i \in DataRowsKept("books") :
           Len(ScannedSheet("books")[i]) < Len(located["books"].headers)

\* h is what the Column Resolver owes for the aliases: the first header, in
\* sheet order, of the first alias, in priority order, that a header equals
\* after trimming, letter case aside; unresolved when no header equals an alias.
ResolvedAs(h, headers, aliases) ==
    LET normal  == [j \in 1..Len(headers) |-> ToLowerCase(Trim(headers[j]))]
        lowered == [a \in 1..Len(aliases) |-> ToLowerCase(aliases[a])]
        hits    == [a \in 1..Len(aliases) |-> {j \in 1..Len(headers) : normal[j] = lowered[a]}]
        found   == {a \in 1..Len(aliases) : hits[a] # {}}
    IN  IF found = {} THEN h = NoHeader
        ELSE \E a \in found : \E j \in hits[a] :
                 /\ \A b \in found : a <= b
                 /\ \A k \in hits[a] : j <= k
                 /\ h = headers[j]

\* Header resolution has just run; the headers stay as they are afterwards.
HeadersResolved ==
    \/ pc = "consolidate"
    \/ pc = "failed" /\ error # <<>> /\ error[1] = "MissingRequiredColumn"

\* C12: each of the sixteen headers is the first header, in sheet order, that
\* equals (trimmed, letter case aside) the first alias, in priority order,
\* that any header equals, and is unresolved when no header equals an alias.
C12_ColumnResolver ==
    HeadersResolved =>
        LET bh == Keys(rawBooksSheet[1])
            gh == Keys(rawGstr2bSheet[1])
        IN  /\ ResolvedAs(hdr.bookGstinH, bh, ALIASES_gstin)
            /\ ResolvedAs(hdr.bookBillNoH, bh, ALIASES_billNo)
            /\ ResolvedAs(hdr.bookLegalNameH, bh, ALIASES_legalName)
            /\ ResolvedAs(hdr.bookTaxableH, bh, ALIASES_taxableValue)
            /\ ResolvedAs(hdr.bookIgstH, bh, ALIASES_integratedTax)
            /\ ResolvedAs(hdr.bookCgstH, bh, ALIASES_centralTax)
            /\ ResolvedAs(hdr.bookSgstH, bh, ALIASES_stateTax)
            /\ ResolvedAs(hdr.bookCessH, bh, ALIASES_cess)
            /\ ResolvedAs(hdr.gstrGstinH, gh, ALIASES_gstin)
            /\ ResolvedAs(hdr.gstrBillNoH, gh, ALIASES_billNo)
            /\ ResolvedAs(hdr.gstrLegalNameH, gh, ALIASES_legalName)
            /\ ResolvedAs(hdr.gstrTaxableH, gh, ALIASES_taxableValue)
            /\ ResolvedAs(hdr.gstrIgstH, gh, ALIASES_integratedTax)
            /\ ResolvedAs(hdr.gstrCgstH, gh, ALIASES_centralTax)
            /\ ResolvedAs(hdr.gstrSgstH, gh, ALIASES_stateTax)
            /\ ResolvedAs(hdr.gstrCessH, gh, ALIASES_cess)

\* The sheet holds 'Bill No' before 'Invoice Number' and a header that only
\* contains an alias; the invoice-number header is 'Invoice Number', and the
\* taxable value is unresolved.
C12_Witness ==
    /\ HeadersResolved
    /\ \E j, k, n \in 1..Len(Keys(rawBooksSheet[1])) :
           /\ j < k
           /\ Keys(rawBooksSheet[1])[j] = T_BillNo
           /\ Keys(rawBooksSheet[1])[k] = T_InvoiceNumber
           /\ Keys(rawBooksSheet[1])[n] = T_BillNo \o <<":">>
    /\ hdr.bookBillNoH = T_InvoiceNumber
    /\ hdr.bookTaxableH = NoHeader

BooksTaxable(e) == getColumnData(e.row, hdr.bookTaxableH)

\* C13: every Only-in-Books record with a taxable value >= 0, a missing or
\* unresolved one counting as 0, is in invoicesInBookNotInGstr2b and not in
\* creditNotesInBookNotInGstr2b, every one with a taxable value < 0 the other
\* way round, and the two bucket sizes sum to summary.onlyInBooks.
C13_BooksResidualSplit ==
    Returned =>
        LET inv == result[1].invoicesInBookNotInGstr2b
            cn  == result[1].creditNotesInBookNotInGstr2b
        IN  /\ \A e \in Range(finalOnlyInBooks) :
                   /\ hdr.bookTaxableH = NoHeader => BooksTaxable(e) = 0
                   /\ BooksTaxable(e) >= 0 => e \in Range(inv) /\ e \notin Range(cn)
                   /\ BooksTaxable(e) < 0 => e \in Range(cn) /\ e \notin Range(inv)
            /\ Range(inv) \cup Range(cn) = Range(finalOnlyInBooks)
            /\ Len(inv) + Len(cn) = result[1].summary.onlyInBooks
            /\ result[1].summary.onlyInBooks = Len(finalOnlyInBooks)

\* The residual holds an invoice and a credit note, one in each bucket.
C13_Witness ==
    /\ Returned /\ hdr.bookTaxableH # NoHeader
    /\ \E e \in Range(result[1].invoicesInBookNotInGstr2b) : BooksTaxable(e) > 0
    /\ \E e \in Range(result[1].creditNotesInBookNotInGstr2b) : BooksTaxable(e) < 0

\* The four buckets in report order, and the status each one stands for.
ReportBuckets ==
    << <<matchedRecords, STATUS_Matched>>,
       <<partiallyMatchedRecords, STATUS_PartiallyMatched>>,
       <<finalOnlyInBooks, STATUS_OnlyInBooks>>,
       <<finalOnlyInGstr2b, STATUS_OnlyInGstr2b>> >>

TaxDiffKeys == {KEY_DiffIgst, KEY_DiffCgst, KEY_DiffSgst, KEY_DiffCess}

\* The number of fields of a record with the given name.
FieldCount(row, key) == Cardinality({k \in 1..Len(row) : row[k][1] = key})

\* reported is the bucket record e without the four tax-type differences.
ReportedAs(reported, e, status) ==
    /\ reported.book = e.book /\ reported.gstr = e.gstr
    /\ FieldCount(reported.row, KEY_ReconStatus) = 1
    /\ Get(reported.row, KEY_ReconStatus) = Str(status)
    /\ Get(e.row, KEY_ReconStatus) = Str(status)
    /\ \A key \in TaxDiffKeys : ~Has(reported.row, key)
    /\ \A k \in 1..Len(e.row) :
           e.row[k][1] \notin TaxDiffKeys =>
               /\ Has(reported.row, e.row[k][1])
               /\ Get(reported.row, e.row[k][1]) = e.row[k][2]
    /\ \A k \in 1..Len(reported.row) : Has(e.row, reported.row[k][1])

\* C14: the Final Report is the Matched, Partially Matched, Only-in-Books and
\* Only-in-GSTR-2B records in this order, each with the one Recon Status of
\* its bucket and without the four tax-type differences; Matched records keep
\* the taxable-value difference there, and all five differences in
\* matchedRecords.
C14_FinalReport ==
    Returned =>
        LET report == result[1].finalReport
            start(b) == IF b = 1 THEN 0
                        ELSE IF b = 2 THEN Len(matchedRecords)
                        ELSE IF b = 3 THEN Len(matchedRecords) + Len(partiallyMatchedRecords)
                        ELSE Len(matchedRecords) + Len(partiallyMatchedRecords)
                                 + Len(finalOnlyInBooks)
        IN  /\ Len(report) = result[1].summary.matched + result[1].summary.partiallyMatched
                                 + result[1].summary.onlyInBooks + result[1].summary.onlyInGstr2b
            /\ Len(report) = Len(matchedRecords) + Len(partiallyMatchedRecords)
                                 + Len(finalOnlyInBooks) + Len(finalOnlyInGstr2b)
            /\ \A b \in 1..4 : \A k \in 1..Len(ReportBuckets[b][1]) :
                   ReportedAs(report[start(b) + k], ReportBuckets[b][1][k], ReportBuckets[b][2])
            /\ \A k \in 1..Len(matchedRecords) :
                   /\ Has(report[k].row, KEY_DiffTaxable)
                   /\ Get(report[k].row, KEY_DiffTaxable)
                          = Get(matchedRecords[k].row, KEY_DiffTaxable)
            /\ result[1].matchedRecords = matchedRecords
            /\ \A e \in Range(result[1].matchedRecords) :
                   \A key \in TaxDiffKeys \cup {KEY_DiffTaxable} : FieldCount(e.row, key) = 1

\* A report with a Matched, an Only-in-Books and an Only-in-GSTR-2B record.
C14_Witness ==
    /\ Returned /\ Len(matchedRecords) >= 1
    /\ Len(finalOnlyInBooks) >= 1 /\ Len(finalOnlyInGstr2b) >= 1

\* Consolidation dropped a record of the sheet or merged two of them.
MergedOrDropped(records, gstinHeader, billNoHeader) ==
    \/ Keyed(records, gstinHeader, billNoHeader) # 1..Len(records)
    \/ \E j, k \in Keyed(records, gstinHeader, billNoHeader) :
           /\ j # k
           /\ KeyText(records[j], gstinHeader, billNoHeader)
                  = KeyText(records[k], gstinHeader, billNoHeader)

\* C15: totalInBooks and totalInGstr2b are the numbers of records the parses
\* materialized; each is at least the sum of the three bucket sizes of its
\* side, and more whenever consolidation merged or dropped a record.
C15_SummaryTotals ==
    Returned =>
        LET sum   == result[1].summary
            books == sum.matched + sum.partiallyMatched + sum.onlyInBooks
            gstr  == sum.matched + sum.partiallyMatched + sum.onlyInGstr2b
        IN  /\ sum.totalInBooks = Cardinality(DataRowsKept("books"))
            /\ sum.totalInGstr2b = Cardinality(DataRowsKept("gstr2b"))
            /\ sum.totalInBooks = Len(rawBooksSheet)
            /\ sum.totalInGstr2b = Len(rawGstr2bSheet)
            /\ sum.totalInBooks >= books
            /\ sum.totalInGstr2b >= gstr
            /\ MergedOrDropped(rawBooksSheet, hdr.bookGstinH, hdr.bookBillNoH)
                   => sum.totalInBooks > books
            /\ MergedOrDropped(rawGstr2bSheet, hdr.gstrGstinH, hdr.gstrBillNoH)
                   => sum.totalInGstr2b > gstr

\* Three Books line items, two of one invoice and one without a GSTIN or an
\* invoice number: the total is 3 and the buckets hold one record.
C15_Witness ==
    /\ Returned /\ result[1].summary.totalInBooks = 3
    /\ Keyed(rawBooksSheet, hdr.bookGstinH, hdr.bookBillNoH) # 1..3
    /\ Len(booksSheet) = 1
    /\ result[1].summary.matched + result[1].summary.partiallyMatched
           + result[1].summary.onlyInBooks = 1

\* The consolidated GSTR-2B records Phase 1 did not pair, in consolidated order.
Phase1Leftovers ==
    SelectSeq([g \in 1..Len(gstr2bSheet) |-> g],
              LAMBDA g : \A e \in Range(matchedRecords) : e.gstr # g)

\* The leftovers without the records the first n - 1 Partially Matched
\* records took.
PoolBefore(n) ==
    SelectSeq(Phase1Leftovers,
              LAMBDA g : \A m \in 1..(n - 1) : partiallyMatchedRecords[m].gstr # g)

Increasing(q) == \A j, k \in 1..Len(q) : j < k => q[j] < q[k]

\* C16: Phase 2 takes the unmatched Books records in consolidated Books order,
\* and pairs each with the qualifying record of smallest index in the pool,
\* the pool being the Phase 1 leftovers in consolidated GSTR-2B order without
\* the records Phase 2 removed earlier.
C16_FirstFit ==
    pc \in {"phase2", "done"} =>
        /\ Increasing(onlyInBooksInitial)
        /\ Increasing([k \in 1..Len(partiallyMatchedRecords) |-> partiallyMatchedRecords[k].book])
        /\ Increasing([k \in 1..Len(finalOnlyInBooks) |-> finalOnlyInBooks[k].book])
        /\ {e.book : e \in Range(partiallyMatchedRecords) \cup Range(finalOnlyInBooks)}
               = {onlyInBooksInitial[k] : k \in 1..(idx - 1)}
        /\ \A n \in 1..Len(partiallyMatchedRecords) :
               LET b     == booksSheet[partiallyMatchedRecords[n].book]
                   cands == {k \in 1..Len(PoolBefore(n)) :
                                 Compatible(b, gstr2bSheet[PoolBefore(n)[k]])}
               IN  /\ cands # {}
                   /\ \A k \in cands :
                          partiallyMatchedRecords[n].gstr = PoolBefore(n)[k]
                              \/ \E j \in cands : j < k

\* No key of the record equals, trimmed and letter case aside, an alias.
Unresolvable(record, aliases) ==
    \A k \in 1..Len(Keys(record)) : \A a \in 1..Len(aliases) :
        ToLowerCase(Trim(Keys(record)[k])) # ToLowerCase(aliases[a])

\* The GSTIN header or the Invoice-Number header cannot be resolved from the
\* record.
RequiredMissing(record) ==
    Unresolvable(record, ALIASES_gstin) \/ Unresolvable(record, ALIASES_billNo)

\* Both files are parsed and header resolution has run.
ResolutionOver == rawBooksSheet # <<>> /\ rawGstr2bSheet # <<>> /\ pc # "resolve"

\* C17: the four required headers are resolved from the keys of the first
\* record of each dataset alone; reconcileData fails with
\* MissingRequiredColumn and without a Result exactly when one of them cannot
\* be resolved from the first Books record or the first GSTR-2B record, and it
\* never consolidates with one of the four unresolved.
C17_RequiredColumns ==
    /\ ResolutionOver =>
           /\ ResolvedAs(hdr.bookGstinH, Keys(rawBooksSheet[1]), ALIASES_gstin)
           /\ ResolvedAs(hdr.bookBillNoH, Keys(rawBooksSheet[1]), ALIASES_billNo)
           /\ ResolvedAs(hdr.gstrGstinH, Keys(rawGstr2bSheet[1]), ALIASES_gstin)
           /\ ResolvedAs(hdr.gstrBillNoH, Keys(rawGstr2bSheet[1]), ALIASES_billNo)
           /\ IF RequiredMissing(rawBooksSheet[1]) \/ RequiredMissing(rawGstr2bSheet[1])
              THEN /\ pc = "failed"
                   /\ error = <<"MissingRequiredColumn",
                                IF RequiredMissing(rawBooksSheet[1]) THEN FILE_Books
                                ELSE FILE_Gstr2b>>
                   /\ result = <<>>
                   /\ booksSheet = <<>> /\ gstr2bSheet = <<>>
              ELSE pc # "failed"
    /\ pc \in {"consolidate", "buildMap", "phase1", "phase2", "done"} =>
           /\ hdr.bookGstinH # NoHeader /\ hdr.bookBillNoH # NoHeader
           /\ hdr.gstrGstinH # NoHeader /\ hdr.gstrBillNoH # NoHeader

\* The first GSTR-2B record holds a GSTIN alone, a later record holds an
\* invoice number under an alias as well: reconcileData fails, naming the
\* GSTR-2B report.
C17_Witness ==
    /\ pc = "failed" /\ error = <<"MissingRequiredColumn", FILE_Gstr2b>>
    /\ ~Unresolvable(rawGstr2bSheet[1], ALIASES_gstin)
    /\ Unresolvable(rawGstr2bSheet[1], ALIASES_billNo)
    /\ \E k \in 2..Len(rawGstr2bSheet) : ~RequiredMissing(rawGstr2bSheet[k])

\* The two records have the same normalised GSTIN.
SameGstin(bookRow, gstrRow) ==
    ToUpperCase(RemoveWhitespace(FieldText(bookRow, hdr.bookGstinH)))
        = ToUpperCase(RemoveWhitespace(FieldText(gstrRow, hdr.gstrGstinH)))

\* C18: in the final result no Only-in-GSTR-2B record satisfies the
\* tolerant-match criterion for an Only-in-Books record.
C18_NoCompatiblePairLeft ==
    Returned =>
        \A b \in Range(finalOnlyInBooks) : \A g \in Range(finalOnlyInGstr2b) :
            /\ StatusOf(b) = STATUS_OnlyInBooks
            /\ StatusOf(g) = STATUS_OnlyInGstr2b
            /\ ~Compatible(booksSheet[b.book], gstr2bSheet[g.gstr])

\* A Books record and a GSTR-2B record of one supplier, with taxable values
\* within the tolerance and different legal names, are both left over.
C18_Witness ==
    /\ Returned
    /\ \E b \in Range(finalOnlyInBooks) : \E g \in Range(finalOnlyInGstr2b) :
           /\ SameGstin(booksSheet[b.book], gstr2bSheet[g.gstr])
           /\ Abs(getColumnData(booksSheet[b.book], hdr.bookTaxableH)
                      - getColumnData(gstr2bSheet[g.gstr], hdr.gstrTaxableH)) <= 2 * Scale

\* The text of a key half as C19 compares it: whitespace removed, uppercased.
HalfText(row, header) == ToUpperCase(RemoveWhitespace(FieldText(row, header)))

\* C19: every Matched pair agrees on the GSTIN and on the Invoice Number,
\* each compared by itself after removing whitespace and uppercasing.
C19_HalvesAgree ==
    \A e \in Range(matchedRecords) :
        /\ HalfText(booksSheet[e.book], hdr.bookGstinH)
               = HalfText(gstr2bSheet[e.gstr], hdr.gstrGstinH)
        /\ HalfText(booksSheet[e.book], hdr.bookBillNoH)
               = HalfText(gstr2bSheet[e.gstr], hdr.gstrBillNoH)

\* A step in which a run of handleReconcile starts: reconcileData is called
\* and starts both parses.
RunStarts ==
    /\ pc' = "await" /\ parse' = [s \in Sides |-> Pending]
    /\ pc # "await" \/ parse # parse'

\* A run has ended: isLoading is false and exactly one of error and
\* reconciliationResult is not null, the Result after a success, the message
\* of the failure after a failure.
RunSettled ==
    /\ ~isLoading
    /\ (appError = <<>>) # (reconciliationResult = <<>>)
    /\ pc = "done" => reconciliationResult = result /\ result # <<>>
    /\ pc = "failed" => appError = <<error>> /\ error # <<>>
    /\ pc \in {"done", "failed"}

\* C20: a run of handleReconcile starts with both files present and isLoading
\* false, and sets isLoading and clears error and result; while isLoading is
\* true the Reconcile button is disabled and no run starts; and a run that is
\* loading eventually ends with isLoading false and exactly one of error and
\* reconciliationResult set, the Result on success and the message on failure.
C20_HandleReconcile ==
    /\ [][RunStarts =>
              /\ booksFile # NoFile /\ gstr2bFile # NoFile
              /\ ~isLoading
              /\ isLoading' /\ appError' = <<>> /\ reconciliationResult' = <<>>]_vars
    /\ [](isLoading => ReconcileDisabled)
    /\ [](~isLoading => pc = "idle" \/ RunSettled)
    /\ isLoading ~> RunSettled

\* A run has ended with the message of a failed parse while the reader of
\* the other file has not fired yet.
C20_Witness ==
    /\ RunSettled /\ pc = "failed"
    /\ \E side \in Sides : parse[side].state = "pending"

====
